---- MODULE Spec2Model ----
(***************************************************************************)
(* Model of the blaze request dispatch engine: Endpoint and LoadBalancer   *)
(* (src/src/endpoint.rs), ApiClient::send_with_retry (src/src/client.rs)   *)
(* and Processor::process_file (src/src/processor.rs).                     *)
(*                                                                         *)
(* Scheduling.  process_file drives its request futures with               *)
(* stream::iter(..).map(..).buffer_unordered(workers).collect().await      *)
(* (processor.rs:102-187): every request future is polled from the one     *)
(* task that awaits process_file, so request tasks interleave only at      *)
(* their suspension points (rate_limiter.until_ready().await,              *)
(* tokio::time::sleep(..).await, the HTTP send inside send_once).  The     *)
(* sink writes run under futures::executor::block_on and do not suspend    *)
(* the task.  An action of this model is therefore one wake-up of a task   *)
(* followed by all the code it runs up to its next suspension point.       *)
(*                                                                         *)
(* Counters.  in_flight is an AtomicUsize changed with wrapping fetch_add  *)
(* and fetch_sub.  The model keeps the bit pattern read as a two's         *)
(* complement integer: -k stands for the usize value 2^64 - k, so a        *)
(* fetch_sub on 0 gives -1 (usize::MAX) and comparisons are unsigned       *)
(* (ULt).                                                                  *)
(*                                                                         *)
(* Specifications.  Spec is a dispatcher run (process_file) over every     *)
(* retry, sink and endpoint configuration within the bounds; FairSpec is   *)
(* the run against one backend with weak fairness of the dispatcher's      *)
(* steps.  SpecApi is a caller of the public Endpoint / LoadBalancer API   *)
(* making one call at a time; SpecThreads is several threads inside        *)
(* record_success / record_failure of one endpoint, one atomic operation   *)
(* per step.                                                               *)
(***************************************************************************)
EXTENDS Integers, Sequences, FiniteSets, Bags, TLC

(* ------------------------------ bounds -------------------------------- *)
NumRequests == 3
Workers == 2
NumEndpoints == 2
MaxConcurrent == 1
MaxAttempts == 2
MaxCalls == 5
NumThreads == 2
JitterSteps == 4
MaxLines == 4
MaxSlots == 2
MaxClock == 4
(* One second, in ticks. *)
OneSecond == 2

Requests == 1..NumRequests
Endpoints == 1..NumEndpoints
Threads == 1..NumThreads

None == "None"
(* Option<u16>::None of a status; Err(AllEndpointsUnhealthy) of select. *)
NoStatus == 0
AllEndpointsUnhealthy == 0

(* Unsigned comparison of two usize bit patterns (see Counters above). *)
ULt(a, b) ==
    IF a < 0
        THEN b < 0 /\ a < b
        ELSE b < 0 \/ a < b

(* ------------------------ src/src/endpoint.rs -------------------------- *)

weight(e) == e

NewEndpoint(e, mc) ==
    [ weight |-> weight(e),
      max_concurrent |-> mc,
      in_flight |-> 0,
      success_count |-> 0,
      failure_count |-> 0,
      healthy |-> TRUE,
      last_health_check |-> None,
      consecutive_failures |-> 0 ]

is_healthy(E) == E.healthy

mark_healthy(E) == [E EXCEPT !.healthy = TRUE, !.consecutive_failures = 0]

(* last_health_check = Some(Instant::now()): its elapsed time is below any
   positive cooldown until time passes (CooldownElapses). *)
mark_unhealthy(E) == [E EXCEPT !.healthy = FALSE, !.last_health_check = "Recent"]

(* Variant: the cooldown is not looked at. *)
should_retry_always(E) == TRUE

should_retry(E) ==
    IF is_healthy(E)
        THEN TRUE
        ELSE CASE E.last_health_check = None -> TRUE
               [] E.last_health_check = "Expired" -> TRUE
               [] OTHER -> FALSE

(* Variant: a success resets the counter but leaves the quarantine in place. *)
record_success_no_heal(E) ==
    [E EXCEPT !.success_count = @ + 1, !.consecutive_failures = 0]

record_success(E) ==
    mark_healthy([E EXCEPT !.success_count = @ + 1, !.consecutive_failures = 0])

(* Variant: a failure that is not counted in failure_count. *)
record_failure_uncounted(E) ==
    LET F == [E EXCEPT !.consecutive_failures = @ + 1]
    IN  IF F.consecutive_failures >= 3 THEN mark_unhealthy(F) ELSE F

record_failure(E) ==
    LET F == [E EXCEPT !.failure_count = @ + 1, !.consecutive_failures = @ + 1]
    IN  IF F.consecutive_failures >= 3 THEN mark_unhealthy(F) ELSE F

(* Variant: the capacity test admits an endpoint that is exactly full. *)
can_accept_inclusive(E) == ~ULt(E.max_concurrent, E.in_flight)

can_accept(E) == ULt(E.in_flight, E.max_concurrent)

(* Variant: the capacity test of acquire inverted. *)
acquire_inverted(E) ==
    IF ULt(E.in_flight, E.max_concurrent)
        THEN [ok |-> FALSE, ep |-> E]
        ELSE [ok |-> TRUE, ep |-> [E EXCEPT !.in_flight = @ + 1]]

(* Variant: the slot is counted before the capacity test and not given back. *)
acquire_add_first(E) ==
    IF ~ULt(E.in_flight, E.max_concurrent)
        THEN [ok |-> FALSE, ep |-> [E EXCEPT !.in_flight = @ + 1]]
        ELSE [ok |-> TRUE, ep |-> [E EXCEPT !.in_flight = @ + 1]]

(* acquire: the returned bool and the endpoint afterwards. *)
acquire(E) ==
    IF ~ULt(E.in_flight, E.max_concurrent)
        THEN [ok |-> FALSE, ep |-> E]
        ELSE [ok |-> TRUE, ep |-> [E EXCEPT !.in_flight = @ + 1]]

(* Variants: a release that leaves in_flight alone, and one that adds. *)
release_noop(E) == E

release_add(E) == [E EXCEPT !.in_flight = @ + 1]

release(E) == [E EXCEPT !.in_flight = @ - 1]

(* LoadBalancer: the endpoints in configuration order. *)
RECURSIVE AvailableFrom(_, _)
AvailableFrom(eps, i) ==
    IF i > Len(eps)
        THEN << >>
        ELSE (IF is_healthy(eps[i]) /\ can_accept(eps[i]) THEN <<i>> ELSE << >>)
                 \o AvailableFrom(eps, i + 1)

RECURSIVE RecoveringFrom(_, _)
RecoveringFrom(eps, i) ==
    IF i > Len(eps)
        THEN << >>
        ELSE (IF should_retry(eps[i]) /\ can_accept(eps[i]) THEN <<i>> ELSE << >>)
                 \o RecoveringFrom(eps, i + 1)

RECURSIVE TotalWeight(_, _)
TotalWeight(eps, cands) ==
    IF cands = << >> THEN 0 ELSE eps[Head(cands)].weight + TotalWeight(eps, Tail(cands))

(* Variant: the loop stops at a candidate while pick <= its weight. *)
RECURSIVE weighted_loop_inclusive(_, _, _, _)
weighted_loop_inclusive(eps, cands, rest, pick) ==
    IF rest = << >>
        THEN [ep |-> Head(cands), fallback |-> TRUE]
        ELSE IF pick <= eps[Head(rest)].weight
                 THEN [ep |-> Head(rest), fallback |-> FALSE]
                 ELSE weighted_loop_inclusive(eps, cands, Tail(rest),
                                              pick - eps[Head(rest)].weight)

(* weighted_select: the for loop over the candidates, then the fallback to
   the first candidate; fallback tells which of the two returned. *)
RECURSIVE weighted_loop(_, _, _, _)
weighted_loop(eps, cands, rest, pick) ==
    IF rest = << >>
        THEN [ep |-> Head(cands), fallback |-> TRUE]
        ELSE IF pick < eps[Head(rest)].weight
                 THEN [ep |-> Head(rest), fallback |-> FALSE]
                 ELSE weighted_loop(eps, cands, Tail(rest), pick - eps[Head(rest)].weight)

weighted_select(eps, cands, pick) == weighted_loop(eps, cands, cands, pick)

(* Variant: the fast path takes every endpoint. *)
Available_unfiltered(eps) == [i \in 1..Len(eps) |-> i]

Available(eps) == AvailableFrom(eps, 1)

Recovering(eps) == RecoveringFrom(eps, 1)

(* select_with_cooldown: every endpoint the random draw can return, or
   AllEndpointsUnhealthy. *)
select(eps) ==
    IF Available(eps) # << >>
        THEN { weighted_select(eps, Available(eps), pick).ep :
                   pick \in 0..(TotalWeight(eps, Available(eps)) - 1) }
        ELSE IF Recovering(eps) # << >>
                 THEN { weighted_select(eps, Recovering(eps), pick).ep :
                            pick \in 0..(TotalWeight(eps, Recovering(eps)) - 1) }
                 ELSE { AllEndpointsUnhealthy }

(* ------------------------- src/src/client.rs --------------------------- *)

(* What one HTTP attempt can meet: no response (connect error, timeout) or a
   response with a status and a body that parses as JSON or not. *)
Statuses == {200, 400, 401, 403, 404, 408, 429, 500}

Responses ==
    { [kind |-> "transport", status |-> NoStatus, json |-> FALSE] }
    \cup { [kind |-> "response", status |-> s, json |-> j] :
               s \in Statuses, j \in {TRUE} }
    \cup { [kind |-> "response", status |-> 200, json |-> FALSE] }

(* No attempt of the request has ended yet. *)
NoResponse == [kind |-> "none", status |-> NoStatus, json |-> FALSE]

is_success(status) == status >= 200 /\ status < 300

(* send_once: Ok(body) or Err((error, status)). *)
send_once(resp) ==
    IF resp.kind = "transport"
        THEN [ok |-> FALSE, error |-> "Request failed", status |-> NoStatus]
        ELSE IF is_success(resp.status)
                 THEN IF resp.json
                          THEN [ok |-> TRUE, error |-> None, status |-> resp.status]
                          ELSE [ok |-> FALSE, error |-> "Failed to parse response",
                                status |-> resp.status]
                 ELSE [ok |-> FALSE, error |-> "HTTP", status |-> resp.status]

(* Variant: 404 left out of the codes that are not retried. *)
NonRetryable_without404(status) ==
    status # NoStatus /\ (status = 400 \/ status = 401 \/ status = 403)

(* The status codes send_with_retry does not retry. *)
NonRetryable(status) ==
    status # NoStatus /\ (status = 400 \/ status = 401 \/ status = 403 \/ status = 404)
(* RetryConfig: initial_backoff and max_backoff in milliseconds; the f64
   multiplier is a fraction <<p, q>>. The defaults are 100 ms, 10 s and 2.0. *)
DefaultRetry == [initial_backoff |-> 100, multiplier |-> <<2, 1>>, max_backoff |-> 10000]

RetryConfigs ==
    [ initial_backoff : {1, 50, 100},
      multiplier : {<<1, 1>>, <<3, 2>>, <<2, 1>>},
      max_backoff : {120, 10000} ]

RECURSIVE Pow(_, _)
Pow(b, k) == IF k = 0 THEN 1 ELSE b * Pow(b, k - 1)

Min(a, b) == IF a < b THEN a ELSE b

(* base * multiplier^(attempt - 1) as the fraction <<num, den>> of milliseconds. *)
backoff_ms(retry, attempt) ==
    << retry.initial_backoff * Pow(retry.multiplier[1], attempt - 1),
       Pow(retry.multiplier[2], attempt - 1) >>

(* Variant: the result is not clamped to max_backoff. *)
calculate_backoff_unclamped(retry, attempt, r) ==
    LET b == backoff_ms(retry, attempt)
    IN  (b[1] * (3 * JitterSteps + 2 * r)) \div (b[2] * 4 * JitterSteps)

(* calculate_backoff with rand::random::<f64>() = r / JitterSteps: the jitter
   1.0 + (rand - 0.5) * 0.5 is (3 * JitterSteps + 2 * r) / (4 * JitterSteps),
   the cast "as u64" drops the fraction of a millisecond. Arithmetic is exact,
   the rounding of f64 is not modelled. *)
calculate_backoff(retry, attempt, r) ==
    LET b == backoff_ms(retry, attempt)
        final_ms == (b[1] * (3 * JitterSteps + 2 * r)) \div (b[2] * 4 * JitterSteps)
    IN  Min(final_ms, retry.max_backoff)

(* ------------------------------- state --------------------------------- *)
VARIABLES
    config,             \* Config: retry.max_attempts, whether output_path is Some
    endpoints,          \* LoadBalancer.endpoints: one Endpoint per configured backend
    tasks,              \* per request: the position and locals of its future
    success_sink,       \* lines written to output_writer (a multiset: the order
    failure_sink,       \* lines written to error_writer   of lines is not kept)
    stats,              \* StatsTracker counters
    flushed,            \* per sink: FALSE while its BufWriter holds an unflushed line
    ghost,              \* per request: calls made on its behalf (history only)
    processing_result,  \* <<ProcessingResult>> once process_file has returned, << >> before
    calls,              \* library calls made directly on the LoadBalancer (history only)
    threads             \* threads calling Endpoint methods: position and locals of each

vars == <<config, endpoints, tasks, success_sink, failure_sink, stats, flushed, ghost,
          processing_result, calls, threads>>

(* The part of the state a task changes when it runs. *)
World ==
    [ endpoints |-> endpoints, tasks |-> tasks, success_sink |-> success_sink,
      failure_sink |-> failure_sink, stats |-> stats, flushed |-> flushed,
      ghost |-> ghost ]

Commit(w) ==
    /\ endpoints' = w.endpoints
    /\ tasks' = w.tasks
    /\ success_sink' = w.success_sink
    /\ failure_sink' = w.failure_sink
    /\ stats' = w.stats
    /\ flushed' = w.flushed
    /\ ghost' = w.ghost

(* ------------------------- src/src/tracker.rs -------------------------- *)
(* A Duration is a number of nanoseconds. *)
as_micros(latency) == latency \div 1000

ZeroStats ==
    [total_processed |-> 0, success_count |-> 0, failure_count |-> 0,
     total_latency_us |-> 0]

(* Variant: the latency is not added. *)
stats_record_success_untimed(S, latency) ==
    [S EXCEPT !.total_processed = @ + 1, !.success_count = @ + 1]

stats_record_success(S, latency) ==
    [S EXCEPT !.total_processed = @ + 1, !.success_count = @ + 1,
              !.total_latency_us = @ + as_micros(latency)]

stats_record_failure(S) ==
    [S EXCEPT !.total_processed = @ + 1, !.failure_count = @ + 1]

(* avg_latency_ms is the fraction <<numerator, denominator>>; the fields read
   from the clock (elapsed, current_rps, overall_rps) are left out. *)
snapshot(S) ==
    [ total_processed |-> S.total_processed,
      success_count |-> S.success_count,
      failure_count |-> S.failure_count,
      avg_latency_ms |-> IF S.success_count > 0
                             THEN <<S.total_latency_us, S.success_count * 1000>>
                             ELSE <<0, 1>> ]

(* ------------------------ src/src/processor.rs ------------------------- *)
(* processor.rs:142-146: the latency given to the tracker is the client's
   latency_ms, whole milliseconds; request r takes r ms. *)
Latency(r) == r * 1000000

(* The input file: request 1 has only an input text, request 2 only a custom
   body, the others have both. An Option is << >> (None) or <<v>> (Some(v));
   texts and bodies are distinct across requests. *)
Input(r) == IF r = 2 THEN << >> ELSE <<r>>

Body(r) == IF r = 1 THEN << >> ELSE <<r>>

(* processor.rs:140-182: record stats, write the line, return Ok(result). *)
route_success(w, r, line) ==
    LET w1 == [w EXCEPT !.stats = stats_record_success(@, Latency(r))]
        w2 == IF config.output
                  THEN [w1 EXCEPT !.success_sink = @ (+) SetToBag({line}),
                                  !.flushed.success = FALSE]
                  ELSE w1
    IN  [w2 EXCEPT !.tasks[r].pc = "done", !.tasks[r].result = "Success"]

route_failure(w, r, line) ==
    LET w1 == [w EXCEPT !.stats = stats_record_failure(@),
                        !.failure_sink = @ (+) SetToBag({line}),
                        !.flushed.failure = FALSE]
    IN  [w1 EXCEPT !.tasks[r].pc = "done", !.tasks[r].result = "Failure"]

(* A call of endpoint.release() made for request r. *)
call_release(w, r) ==
    [w EXCEPT !.endpoints[w.tasks[r].ep] = release(@), !.ghost[r].releases = @ + 1]

(* Variant: the metadata counts the retries, not the attempts. *)
send_success_retries(w, r) ==
    LET e == w.tasks[r].ep
        w1 == [w EXCEPT !.endpoints[e] = record_success(@),
                       !.ghost[r].records = Append(@, "record_success")]
        w2 == call_release(w1, r)
    IN  route_success(w2, r,
            [ task |-> r, input |-> Input(r), endpoint |-> e,
              attempts |-> w.tasks[r].attempts - 1 ])

(* client.rs:71-84: the Ok arm, then the dispatcher's routing. *)
send_success(w, r) ==
    LET e == w.tasks[r].ep
        w1 == [w EXCEPT !.endpoints[e] = record_success(@),
                       !.ghost[r].records = Append(@, "record_success")]
        w2 == call_release(w1, r)
    IN  route_success(w2, r,
            [ task |-> r, input |-> Input(r), endpoint |-> e,
              attempts |-> w.tasks[r].attempts ])

(* Variant: send_with_retry fails without releasing the slot. *)
send_failure_no_release(w, r) ==
    LET e == w.tasks[r].ep
        w1 == [w EXCEPT !.endpoints[e] = record_failure(@),
                       !.ghost[r].records = Append(@, "record_failure")]
    IN  route_failure(w1, r,
            [ task |-> r, input |-> Input(r), body |-> Body(r), line_number |-> r,
              error |-> IF w.tasks[r].last_error = None
                            THEN "Unknown error" ELSE w.tasks[r].last_error,
              status_code |-> w.tasks[r].last_status,
              attempts |-> w.tasks[r].attempts ])

(* client.rs:116-128: after the loop, then the dispatcher's routing. *)
send_failure(w, r) ==
    LET e == w.tasks[r].ep
        w1 == [w EXCEPT !.endpoints[e] = record_failure(@),
                       !.ghost[r].records = Append(@, "record_failure")]
        w2 == call_release(w1, r)
    IN  route_failure(w2, r,
            [ task |-> r, input |-> Input(r), body |-> Body(r), line_number |-> r,
              error |-> IF w.tasks[r].last_error = None
                            THEN "Unknown error" ELSE w.tasks[r].last_error,
              status_code |-> w.tasks[r].last_status,
              attempts |-> w.tasks[r].attempts ])

(* Variant: the while condition stops one attempt early. *)
loop_head_early(w, r) ==
    IF w.tasks[r].attempts + 1 < config.max_attempts
        THEN [w EXCEPT !.tasks[r].attempts = @ + 1, !.tasks[r].pc = "http",
                       !.ghost[r].issued = @ + 1]
        ELSE send_failure(w, r)

(* Variant: the condition is tested after the body, as in a do-while. *)
loop_head_at_least_once(w, r) ==
    IF w.tasks[r].attempts < config.max_attempts \/ w.tasks[r].attempts = 0
        THEN [w EXCEPT !.tasks[r].attempts = @ + 1, !.tasks[r].pc = "http",
                       !.ghost[r].issued = @ + 1]
        ELSE send_failure(w, r)

(* client.rs:67-70: the while condition; a passed test issues the next attempt. *)
loop_head(w, r) ==
    IF w.tasks[r].attempts < config.max_attempts
        THEN [w EXCEPT !.tasks[r].attempts = @ + 1, !.tasks[r].pc = "http",
                       !.ghost[r].issued = @ + 1]
        ELSE send_failure(w, r)

(* client.rs:55-66: entry of send_with_retry. *)
send_with_retry(w, r) ==
    loop_head([w EXCEPT !.tasks[r].attempts = 0, !.tasks[r].last_error = None,
                        !.tasks[r].last_status = NoStatus, !.ghost[r].sent = TRUE], r)

(* A call of endpoint.acquire() made for request r; .ok is the returned bool. *)
call_acquire(w, r) ==
    LET a == acquire(w.endpoints[w.tasks[r].ep])
    IN  [ ok |-> a.ok,
          w |-> [w EXCEPT !.endpoints[w.tasks[r].ep] = a.ep,
                          !.ghost[r].acquired = @ \/ a.ok,
                          !.ghost[r].acquire_calls = @ + 1] ]

(* Variant: a retry follows the failed attempt at once, without the sleep. *)
attempt_failed_no_backoff(w, r, err) ==
    LET w1 == [w EXCEPT !.tasks[r].last_error = err.error,
                        !.tasks[r].last_status = err.status]
    IN  IF NonRetryable(err.status)
            THEN send_failure(w1, r)
            ELSE loop_head(w1, r)

(* Variant: every failed attempt is recorded on the endpoint. *)
attempt_failed_recording(w, r, err) ==
    LET w1 == [w EXCEPT !.tasks[r].last_error = err.error,
                        !.tasks[r].last_status = err.status,
                        !.endpoints[w.tasks[r].ep] = record_failure(@),
                        !.ghost[r].records = Append(@, "record_failure")]
    IN  IF NonRetryable(err.status)
            THEN send_failure(w1, r)
            ELSE IF w1.tasks[r].attempts < config.max_attempts
                     THEN [w1 EXCEPT !.tasks[r].pc = "backoff",
                                     !.ghost[r].backoffs = @ + 1]
                     ELSE loop_head(w1, r)

(* client.rs:85-112: the Err arm of one attempt. *)
attempt_failed(w, r, err) ==
    LET w1 == [w EXCEPT !.tasks[r].last_error = err.error,
                        !.tasks[r].last_status = err.status]
    IN  IF NonRetryable(err.status)
            THEN send_failure(w1, r)
            ELSE IF w1.tasks[r].attempts < config.max_attempts
                     THEN [w1 EXCEPT !.tasks[r].pc = "backoff",
                                     !.ghost[r].backoffs = @ + 1]
                     ELSE loop_head(w1, r)

TypeOK ==
    /\ config \in [max_attempts : 0..MaxAttempts, output : BOOLEAN]
    /\ DOMAIN endpoints \subseteq Endpoints
    /\ DOMAIN tasks = Requests

Init ==
    /\ config \in [max_attempts : 0..MaxAttempts, output : BOOLEAN]
    /\ \E n \in 1..NumEndpoints : \E mc \in [1..n -> 1..MaxConcurrent] :
           endpoints = [e \in 1..n |-> NewEndpoint(e, mc[e])]
    /\ tasks = [r \in Requests |->
                   [ pc |-> "queued", ep |-> 0, attempts |-> 0, last_error |-> None,
                     last_status |-> NoStatus, result |-> None ]]
    /\ success_sink = EmptyBag
    /\ failure_sink = EmptyBag
    /\ stats = ZeroStats
    /\ flushed = [success |-> TRUE, failure |-> TRUE]
    /\ ghost = [r \in Requests |->
                   [ sent |-> FALSE, acquired |-> FALSE, acquire_calls |-> 0,
                     releases |-> 0, issued |-> 0, backoffs |-> 0, response |-> NoResponse,
                     records |-> << >>, probe |-> FALSE ]]
    /\ processing_result = << >>
    /\ calls = << >>
    /\ threads = << >>

Running(r) == tasks[r].pc \notin {"queued", "done"}

(* Variant: the futures in progress wait for the input to be exhausted. *)
StartPending_without_slot == \E r \in Requests : tasks[r].pc = "queued"

(* buffer_unordered(workers) fills its queue before it polls a future of the
   queue: while a request is unstarted and fewer than workers futures are in
   progress, the next thing that runs is the start of that request. *)
StartPending ==
    /\ \E r \in Requests : tasks[r].pc = "queued"
    /\ Cardinality({q \in Requests : Running(q)}) < Workers

(* Variant: the queue of futures in progress has no limit. *)
Start_unbounded(r) ==
    /\ processing_result = << >>
    /\ tasks[r].pc = "queued"
    /\ \A q \in Requests : q < r => tasks[q].pc # "queued"
    /\ tasks' = [tasks EXCEPT ![r].pc = "rate"]
    /\ UNCHANGED <<config, endpoints, success_sink, failure_sink, stats, flushed, ghost,
                   processing_result, calls, threads>>

(* buffer_unordered(workers): the next request of the input is turned into a
   future while fewer than workers futures are in progress. *)
Start(r) ==
    /\ processing_result = << >>
    /\ tasks[r].pc = "queued"
    /\ \A q \in Requests : q < r => tasks[q].pc # "queued"
    /\ Cardinality({q \in Requests : Running(q)}) < Workers
    /\ tasks' = [tasks EXCEPT ![r].pc = "rate"]
    /\ UNCHANGED <<config, endpoints, success_sink, failure_sink, stats, flushed, ghost,
                   processing_result, calls, threads>>

(* processor.rs:114-137: the rate limiter lets the task through; it selects an
   endpoint, tries to acquire a slot and, with the slot, enters send_with_retry. *)
RateReady(r) ==
    /\ tasks[r].pc = "rate"
    /\ ~StartPending
    /\ \E e \in select(endpoints) :
           IF e = AllEndpointsUnhealthy
               THEN Commit([World EXCEPT !.tasks[r].pc = "done",
                                         !.tasks[r].result = "Err"])
               ELSE LET a == call_acquire([World EXCEPT !.tasks[r].ep = e,
                                                        !.ghost[r].probe = ~is_healthy(endpoints[e])], r)
                    IN  IF a.ok
                            THEN Commit(send_with_retry(a.w, r))
                            ELSE Commit([a.w EXCEPT !.tasks[r].pc = "sleep10"])
    /\ UNCHANGED <<config, processing_result, calls, threads>>

(* A tokio::time::sleep of the task completes: the 10 ms and 100 ms waits of
   the acquire retries (processor.rs:128-133) or a backoff (client.rs:110). *)
SleepElapsed(r) ==
    /\ tasks[r].pc \in {"sleep10", "sleep100", "backoff"}
    /\ ~StartPending
    /\ CASE tasks[r].pc = "sleep10" ->
                LET a == call_acquire(World, r)
                IN  IF a.ok
                        THEN Commit(send_with_retry(a.w, r))
                        ELSE Commit([a.w EXCEPT !.tasks[r].pc = "sleep100"])
         [] tasks[r].pc = "sleep100" ->
                Commit(send_with_retry(call_acquire(World, r).w, r))
         [] OTHER -> Commit(loop_head(World, r))
    /\ UNCHANGED <<config, processing_result, calls, threads>>

(* client.rs:70: the attempt in flight ends with a response or an error. *)
HttpCompletes(r) ==
    /\ tasks[r].pc = "http"
    /\ ~StartPending
    /\ \E resp \in Responses :
           LET res == send_once(resp)
               w == [World EXCEPT !.ghost[r].response = resp]
           IN  IF res.ok
                   THEN Commit(send_success(w, r))
                   ELSE Commit(attempt_failed(w, r, res))
    /\ UNCHANGED <<config, processing_result, calls, threads>>

(* Time passes: the cooldown of a quarantined endpoint expires. *)
CooldownElapses(e) ==
    /\ processing_result = << >>
    /\ e \in DOMAIN endpoints
    /\ endpoints[e].last_health_check = "Recent"
    /\ endpoints' = [endpoints EXCEPT ![e].last_health_check = "Expired"]
    /\ UNCHANGED <<config, tasks, success_sink, failure_sink, stats, flushed, ghost,
                   processing_result, calls, threads>>

(* Variant: the collection of the results stops at the first Err. *)
Complete_at_first_err ==
    /\ processing_result = << >>
    /\ \/ \A r \in Requests : tasks[r].pc = "done"
       \/ \E r \in Requests : tasks[r].result = "Err"
    /\ flushed' = [success |-> TRUE, failure |-> TRUE]
    /\ LET results == {r \in Requests : tasks[r].result # None}
           succ == Cardinality({r \in results : tasks[r].result = "Success"})
       IN  processing_result' =
               << [ total_processed |-> Cardinality(results), success_count |-> succ,
                    failure_count |-> Cardinality(results) - succ ] >>
    /\ UNCHANGED <<config, endpoints, tasks, success_sink, failure_sink, stats, ghost,
                   calls, threads>>

(* processor.rs:186-216: every future has returned; flush the sinks and build
   the result. *)
Complete ==
    /\ processing_result = << >>
    /\ \A r \in Requests : tasks[r].pc = "done"
    /\ flushed' = [success |-> TRUE, failure |-> TRUE]
    /\ LET results == {r \in Requests : tasks[r].result # None}
           succ == Cardinality({r \in results : tasks[r].result = "Success"})
       IN  processing_result' =
               << [ total_processed |-> Cardinality(results), success_count |-> succ,
                    failure_count |-> Cardinality(results) - succ ] >>
    /\ UNCHANGED <<config, endpoints, tasks, success_sink, failure_sink, stats, ghost,
                   calls, threads>>

Next ==
    \/ \E r \in Requests : Start(r)
    \/ \E r \in Requests : RateReady(r)
    \/ \E r \in Requests : SleepElapsed(r)
    \/ \E r \in Requests : HttpCompletes(r)
    \/ \E e \in Endpoints : CooldownElapses(e)
    \/ Complete

Spec == Init /\ [][Next]_vars

(* The steps of the dispatcher, without the passing of time. *)
Dispatch ==
    \/ \E r \in Requests : Start(r)
    \/ \E r \in Requests : RateReady(r)
    \/ \E r \in Requests : SleepElapsed(r)
    \/ \E r \in Requests : HttpCompletes(r)
    \/ Complete

(* The runtime polls a future that has been woken, and a sleep, the rate
   limiter's wait and an HTTP attempt (which has a timeout) end: while some
   step of the dispatcher is possible, one is eventually taken. Nothing is
   assumed about which task runs first. *)
Fairness == WF_vars(Dispatch)

(* The runs against a single backend, for every retry and sink configuration. *)
InitFair == Init /\ Len(endpoints) = 1

FairSpec == InitFair /\ [][Next]_vars /\ Fairness
(* select and acquire run in one wake-up of the task, so the endpoint select
   returned still has the capacity can_accept saw: the first acquire succeeds
   and the retries of processor.rs:127-133 are never entered. *)
FirstAcquireSucceeds ==
    \A r \in Requests :
        /\ tasks[r].pc \notin {"sleep10", "sleep100"}
        /\ ghost[r].acquire_calls <= 1
        /\ ghost[r].acquire_calls = 1 => ghost[r].acquired

(* ----------------- the library used directly (lib.rs) ------------------ *)
(* Endpoint and LoadBalancer are public: a caller makes one call at a time on
   a LoadBalancer it built, with no dispatcher running. A balancer of one
   endpoint has up to MaxSlots slots, a larger one up to MaxConcurrent slots
   per endpoint. calls.history[e] lists
   the health calls made on endpoint e, calls.selected is <<result>> of a
   select made since the last other call, << >> otherwise; calls.acquired is
   <<[ep, ok]>> right after acquire returned ok on endpoint ep;
   calls.probing[e] holds from the acquire of a slot of e, unhealthy and just
   returned by select, until the next health call or release on e. *)
InitApi ==
    /\ config = [max_attempts |-> 0, output |-> FALSE]
    /\ \E n \in 1..NumEndpoints : \E mc \in [1..n -> 1..MaxSlots] :
           /\ n > 1 => \A e \in 1..n : mc[e] <= MaxConcurrent
           /\ endpoints = [e \in 1..n |-> NewEndpoint(e, mc[e])]
    /\ tasks = << >>
    /\ success_sink = EmptyBag
    /\ failure_sink = EmptyBag
    /\ stats = ZeroStats
    /\ flushed = [success |-> TRUE, failure |-> TRUE]
    /\ ghost = << >>
    /\ processing_result = << >>
    /\ calls = [history |-> [e \in DOMAIN endpoints |-> << >>], selected |-> << >>,
                acquired |-> << >>, probing |-> [e \in DOMAIN endpoints |-> FALSE]]
    /\ threads = << >>

HealthCalls ==
    LET n[i \in 0..NumEndpoints] ==
            IF i = 0 THEN 0 ELSE n[i - 1] + (IF i \in DOMAIN endpoints
                                                THEN Len(calls.history[i]) ELSE 0)
    IN  n[NumEndpoints]

(* One health call on endpoint e that leaves it as E. *)
HealthCall(e, name, E) ==
    /\ e \in DOMAIN endpoints
    /\ HealthCalls < MaxCalls
    /\ endpoints' = [endpoints EXCEPT ![e] = E]
    /\ calls' = [calls EXCEPT !.history[e] = Append(@, name), !.selected = << >>,
                              !.acquired = << >>, !.probing[e] = FALSE]
    /\ UNCHANGED <<config, tasks, success_sink, failure_sink, stats, flushed, ghost,
                   processing_result, threads>>

ApiRecordSuccess(e) ==
    e \in DOMAIN endpoints /\ HealthCall(e, "record_success", record_success(endpoints[e]))

ApiRecordFailure(e) ==
    e \in DOMAIN endpoints /\ HealthCall(e, "record_failure", record_failure(endpoints[e]))

ApiMarkHealthy(e) ==
    e \in DOMAIN endpoints /\ HealthCall(e, "mark_healthy", mark_healthy(endpoints[e]))

ApiMarkUnhealthy(e) ==
    e \in DOMAIN endpoints /\ HealthCall(e, "mark_unhealthy", mark_unhealthy(endpoints[e]))

ApiAcquire(e) ==
    /\ e \in DOMAIN endpoints
    /\ endpoints' = [endpoints EXCEPT ![e] = acquire(@).ep]
    /\ calls' = [calls EXCEPT !.selected = << >>,
                              !.acquired = << [ep |-> e, ok |-> acquire(endpoints[e]).ok] >>,
                              !.probing[e] = @ \/ ( /\ acquire(endpoints[e]).ok
                                                    /\ calls.selected = <<e>>
                                                    /\ ~endpoints[e].healthy )]
    /\ UNCHANGED <<config, tasks, success_sink, failure_sink, stats, flushed, ghost,
                   processing_result, threads>>

(* The caller releases a slot it holds. *)
ApiRelease(e) ==
    /\ e \in DOMAIN endpoints
    /\ endpoints[e].in_flight # 0
    /\ endpoints' = [endpoints EXCEPT ![e] = release(@)]
    /\ calls' = [calls EXCEPT !.selected = << >>, !.acquired = << >>, !.probing[e] = FALSE]
    /\ UNCHANGED <<config, tasks, success_sink, failure_sink, stats, flushed, ghost,
                   processing_result, threads>>

ApiCooldownElapses(e) ==
    /\ e \in DOMAIN endpoints
    /\ endpoints[e].last_health_check = "Recent"
    /\ endpoints' = [endpoints EXCEPT ![e].last_health_check = "Expired"]
    /\ calls' = [calls EXCEPT !.selected = << >>, !.acquired = << >>]
    /\ UNCHANGED <<config, tasks, success_sink, failure_sink, stats, flushed, ghost,
                   processing_result, threads>>

(* Variant: select takes a slot of the endpoint it returns. *)
ApiSelect_reserving ==
    /\ \E e \in select(endpoints) :
           /\ calls' = [calls EXCEPT !.selected = <<e>>, !.acquired = << >>]
           /\ endpoints' = IF e = AllEndpointsUnhealthy
                               THEN endpoints
                               ELSE [endpoints EXCEPT ![e].in_flight = @ + 1]
    /\ UNCHANGED <<config, tasks, success_sink, failure_sink, stats, flushed,
                   ghost, processing_result, threads>>

(* lb.select(): the result is kept, the endpoints are only read. *)
ApiSelect ==
    /\ \E e \in select(endpoints) :
           calls' = [calls EXCEPT !.selected = <<e>>, !.acquired = << >>]
    /\ UNCHANGED <<config, endpoints, tasks, success_sink, failure_sink, stats, flushed,
                   ghost, processing_result, threads>>

NextApi ==
    \/ \E e \in Endpoints : ApiRecordSuccess(e)
    \/ \E e \in Endpoints : ApiRecordFailure(e)
    \/ \E e \in Endpoints : ApiMarkHealthy(e)
    \/ \E e \in Endpoints : ApiMarkUnhealthy(e)
    \/ \E e \in Endpoints : ApiAcquire(e)
    \/ \E e \in Endpoints : ApiRelease(e)
    \/ \E e \in Endpoints : ApiCooldownElapses(e)
    \/ ApiSelect

SpecApi == InitApi /\ [][NextApi]_vars

(* ------------- Endpoint methods called from several threads ------------ *)
(* Endpoint is Sync (atomics and RwLocks): threads may be inside its methods
   at once. One step is one atomic operation or one lock-protected write of
   endpoint.rs; threads[t].pc is the operation thread t performs next and
   threads[t].failures the local of record_failure. The update of
   total_latency_us (endpoint.rs:98-99) touches no modelled field and is taken
   with the step before it. *)
InitThreads ==
    /\ config = [max_attempts |-> 0, output |-> FALSE]
    /\ endpoints = <<NewEndpoint(1, MaxConcurrent)>>
    /\ tasks = << >>
    /\ success_sink = EmptyBag
    /\ failure_sink = EmptyBag
    /\ stats = ZeroStats
    /\ flushed = [success |-> TRUE, failure |-> TRUE]
    /\ ghost = << >>
    /\ processing_result = << >>
    /\ calls = [history |-> [e \in {1} |-> << >>], selected |-> << >>]
    /\ threads = [t \in Threads |-> [pc |-> "idle", failures |-> 0]]

(* Thread t applies one operation, leaving the endpoint as E, and moves on to
   position to. *)
ThreadStep(t, E, to) ==
    /\ endpoints' = [endpoints EXCEPT ![1] = E]
    /\ threads' = [threads EXCEPT ![t].pc = to]
    /\ UNCHANGED <<config, tasks, success_sink, failure_sink, stats, flushed, ghost,
                   processing_result, calls>>

(* endpoint.rs:96-99: record_success is entered; success_count.fetch_add(1). *)
BeginRecordSuccess(t) ==
    /\ threads[t].pc = "idle"
    /\ HealthCalls < MaxCalls
    /\ endpoints' = [endpoints EXCEPT ![1].success_count = @ + 1]
    /\ threads' = [threads EXCEPT ![t].pc = "rs_store"]
    /\ calls' = [calls EXCEPT !.history[1] = Append(@, "record_success")]
    /\ UNCHANGED <<config, tasks, success_sink, failure_sink, stats, flushed, ghost,
                   processing_result>>

(* endpoint.rs:100: consecutive_failures.store(0). *)
SuccessStore(t) ==
    /\ threads[t].pc = "rs_store"
    /\ ThreadStep(t, [endpoints[1] EXCEPT !.consecutive_failures = 0], "rs_mark")

(* endpoint.rs:72: mark_healthy writes healthy = true under the write lock. *)
SuccessMarkHealthy(t) ==
    /\ threads[t].pc = "rs_mark"
    /\ ThreadStep(t, [endpoints[1] EXCEPT !.healthy = TRUE], "rs_store2")

(* endpoint.rs:73: mark_healthy stores 0 again; record_success returns. *)
SuccessStoreAgain(t) ==
    /\ threads[t].pc = "rs_store2"
    /\ ThreadStep(t, [endpoints[1] EXCEPT !.consecutive_failures = 0], "idle")

(* endpoint.rs:106: record_failure is entered; failure_count.fetch_add(1). *)
BeginRecordFailure(t) ==
    /\ threads[t].pc = "idle"
    /\ HealthCalls < MaxCalls
    /\ endpoints' = [endpoints EXCEPT ![1].failure_count = @ + 1]
    /\ threads' = [threads EXCEPT ![t].pc = "rf_add"]
    /\ calls' = [calls EXCEPT !.history[1] = Append(@, "record_failure")]
    /\ UNCHANGED <<config, tasks, success_sink, failure_sink, stats, flushed, ghost,
                   processing_result>>

(* endpoint.rs:107-112: failures = consecutive_failures.fetch_add(1) + 1 and
   the test failures >= 3; below 3 record_failure returns. *)
FailureFetchAdd(t) ==
    /\ threads[t].pc = "rf_add"
    /\ LET failures == endpoints[1].consecutive_failures + 1
       IN  /\ endpoints' = [endpoints EXCEPT ![1].consecutive_failures = failures]
           /\ threads' = [threads EXCEPT ![t].failures = failures,
                                         ![t].pc = IF failures >= 3 THEN "rf_mark"
                                                                    ELSE "idle"]
    /\ UNCHANGED <<config, tasks, success_sink, failure_sink, stats, flushed, ghost,
                   processing_result, calls>>

(* endpoint.rs:78: mark_unhealthy writes healthy = false under the write lock. *)
FailureMarkUnhealthy(t) ==
    /\ threads[t].pc = "rf_mark"
    /\ ThreadStep(t, [endpoints[1] EXCEPT !.healthy = FALSE], "rf_stamp")

(* endpoint.rs:79: mark_unhealthy stamps last_health_check; record_failure returns. *)
FailureStamp(t) ==
    /\ threads[t].pc = "rf_stamp"
    /\ ThreadStep(t, [endpoints[1] EXCEPT !.last_health_check = "Recent"], "idle")

NextThreads ==
    \/ \E t \in Threads : BeginRecordSuccess(t)
    \/ \E t \in Threads : SuccessStore(t)
    \/ \E t \in Threads : SuccessMarkHealthy(t)
    \/ \E t \in Threads : SuccessStoreAgain(t)
    \/ \E t \in Threads : BeginRecordFailure(t)
    \/ \E t \in Threads : FailureFetchAdd(t)
    \/ \E t \in Threads : FailureMarkUnhealthy(t)
    \/ \E t \in Threads : FailureStamp(t)

SpecThreads == InitThreads /\ [][NextThreads]_vars

(* ------------------------------ config.rs ------------------------------ *)
(* A url is "" or not; api_key, model, timeout and rate_limit are not read
   by validate. *)
EndpointConfigs == [url : {"", "http://a"}, weight : 0..NumEndpoints,
                    max_concurrent : 1..MaxConcurrent]

RECURSIVE SeqsUpTo(_, _)
SeqsUpTo(S, n) ==
    IF n = 0
        THEN { << >> }
        ELSE LET shorter == SeqsUpTo(S, n - 1)
             IN  shorter \cup { Append(q, x) : q \in shorter, x \in S }

Configs == [endpoints : SeqsUpTo(EndpointConfigs, NumEndpoints), workers : 0..Workers]

(* The first defect of the endpoints from position i on, in the order of the
   loop: the url, then the weight. *)
RECURSIVE validate_endpoints(_, _)
validate_endpoints(cs, i) ==
    IF i > Len(cs)
        THEN "Ok"
        ELSE IF cs[i].url = ""
                 THEN "InvalidConfig: endpoint URL cannot be empty"
                 ELSE IF cs[i].weight = 0
                          THEN "InvalidConfig: endpoint weight must be greater than 0"
                          ELSE validate_endpoints(cs, i + 1)

(* Variant: a weight of 0 passes. *)
validate_any_weight(c) ==
    IF c.endpoints = << >>
        THEN "NoEndpoints"
        ELSE IF \E i \in 1..Len(c.endpoints) : c.endpoints[i].url = ""
                 THEN "InvalidConfig: endpoint URL cannot be empty"
                 ELSE IF c.workers = 0
                          THEN "InvalidConfig: workers must be greater than 0"
                          ELSE "Ok"

validate(c) ==
    IF c.endpoints = << >>
        THEN "NoEndpoints"
        ELSE IF validate_endpoints(c.endpoints, 1) # "Ok"
                 THEN validate_endpoints(c.endpoints, 1)
                 ELSE IF c.workers = 0
                          THEN "InvalidConfig: workers must be greater than 0"
                          ELSE "Ok"

Endpoint_new(c) ==
    [ weight |-> c.weight,
      max_concurrent |-> c.max_concurrent,
      in_flight |-> 0,
      success_count |-> 0,
      failure_count |-> 0,
      healthy |-> TRUE,
      last_health_check |-> None,
      consecutive_failures |-> 0 ]

(* LoadBalancer::new: [result, endpoints]. *)
LoadBalancer_new(configs) ==
    IF configs = << >>
        THEN [result |-> "NoEndpoints", endpoints |-> << >>]
        ELSE [result |-> "Ok",
              endpoints |-> [i \in 1..Len(configs) |-> Endpoint_new(configs[i])]]

(* ------------------------ processor.rs: the input ---------------------- *)
(* A line of the input file is whitespace only, an ApiRequest in JSON, or
   anything serde_json rejects. *)
Lines == {"empty", "request", "malformed"}

Files == SeqsUpTo(Lines, MaxLines)

(* The while loop from line i + 1 on, line_number = i, requests read so far
   rs (each request is its line_number). *)
RECURSIVE read_loop(_, _, _)
read_loop(file, i, rs) ==
    IF i >= Len(file)
        THEN [result |-> "Ok", requests |-> rs, line |-> 0]
        ELSE LET line_number == i + 1
             IN  IF file[line_number] = "empty"
                     THEN read_loop(file, line_number, rs)
                     ELSE IF file[line_number] = "malformed"
                              THEN [result |-> "JsonParse", requests |-> << >>,
                                    line |-> line_number]
                              ELSE read_loop(file, line_number, Append(rs, line_number))

(* Variant: the line number counts the lines that are not empty. *)
RECURSIVE read_loop_counting_requests(_, _, _)
read_loop_counting_requests(file, i, rs) ==
    IF i >= Len(file)
        THEN [result |-> "Ok", requests |-> rs, line |-> 0]
        ELSE IF file[i + 1] = "empty"
                 THEN read_loop_counting_requests(file, i + 1, rs)
                 ELSE IF file[i + 1] = "malformed"
                          THEN [result |-> "JsonParse", requests |-> << >>,
                                line |-> Len(rs) + 1]
                          ELSE read_loop_counting_requests(file, i + 1,
                                                           Append(rs, Len(rs) + 1))

read_requests_skipping(file) == read_loop_counting_requests(file, 0, << >>)

read_requests(file) == read_loop(file, 0, << >>)

(* ------------------------ the tracker on its own ----------------------- *)
(* record_success, record_failure and snapshot of one StatsTracker called one
   after the other; calls.history is the calls that returned, calls.snapshot
   the last snapshot while no call followed it. *)
Latencies == {0, 1500, 2000, 1000000}

InitStats ==
    /\ config = [max_attempts |-> 0, output |-> FALSE]
    /\ endpoints = << >>
    /\ tasks = << >>
    /\ success_sink = EmptyBag
    /\ failure_sink = EmptyBag
    /\ stats = ZeroStats
    /\ flushed = [success |-> TRUE, failure |-> TRUE]
    /\ ghost = << >>
    /\ processing_result = << >>
    /\ calls = [history |-> << >>, snapshot |-> << >>]
    /\ threads = << >>

TrackerRecordSuccess ==
    /\ Len(calls.history) < MaxCalls
    /\ \E latency \in Latencies :
           /\ stats' = stats_record_success(stats, latency)
           /\ calls' = [history |-> Append(calls.history,
                                           [fn |-> "record_success", latency |-> latency]),
                        snapshot |-> << >>]
    /\ UNCHANGED <<config, endpoints, tasks, success_sink, failure_sink, flushed, ghost,
                   processing_result, threads>>

TrackerRecordFailure ==
    /\ Len(calls.history) < MaxCalls
    /\ stats' = stats_record_failure(stats)
    /\ calls' = [history |-> Append(calls.history,
                                    [fn |-> "record_failure", latency |-> 0]),
                 snapshot |-> << >>]
    /\ UNCHANGED <<config, endpoints, tasks, success_sink, failure_sink, flushed, ghost,
                   processing_result, threads>>

TrackerSnapshot ==
    /\ calls' = [calls EXCEPT !.snapshot = <<snapshot(stats)>>]
    /\ UNCHANGED <<config, endpoints, tasks, success_sink, failure_sink, stats, flushed,
                   ghost, processing_result, threads>>

NextStats ==
    \/ TrackerRecordSuccess
    \/ TrackerRecordFailure
    \/ TrackerSnapshot

SpecStats == InitStats /\ [][NextStats]_vars

(* ------------------------------ request.rs ----------------------------- *)
(* A JSON object is a record; an Option is << >> or <<v>>. *)
CustomBodies ==
    { [prompt |-> "hi"],
      [model |-> "own", prompt |-> "hi"],
      [messages |-> << [role |-> "system", content |-> "be brief"] >>] }

ApiRequests == [ input : {<< >>, <<"">>, <<"hello">>},
                 body : {<< >>} \cup { <<b>> : b \in CustomBodies } ]

Models == {<< >>, <<"gpt">>}

default_body(input) ==
    [ messages |-> << [role |-> "user", content |-> IF input = << >> THEN "" ELSE input[1]] >> ]

with_model(body, model) ==
    [ k \in DOMAIN body \cup {"model"} |-> IF k = "model" THEN model ELSE body[k] ]

(* Variant: the endpoint's model is set in a custom body as well. *)
build_llm_body_injecting(request, model) ==
    LET body == IF request.body # << >> THEN request.body[1] ELSE default_body(request.input)
    IN  IF model # << >> THEN with_model(body, model[1]) ELSE body

build_llm_body(request, model) ==
    IF request.body # << >>
        THEN request.body[1]
        ELSE IF model # << >>
                 THEN with_model(default_body(request.input), model[1])
                 ELSE default_body(request.input)

(* Balancers of up to NumEndpoints + 1 endpoints, by their weights, and the
   candidate lists select can pass to weighted_select: the endpoints that
   passed the filter, in configuration order. *)
WeightLists == SeqsUpTo(0..NumEndpoints, NumEndpoints + 1) \ { << >> }

EndpointsOf(ws) ==
    [ i \in 1..Len(ws) |->
          Endpoint_new([url |-> "http://a", weight |-> ws[i], max_concurrent |-> 1]) ]

RECURSIVE Filtered(_, _, _)
Filtered(S, i, n) ==
    IF i > n
        THEN << >>
        ELSE (IF i \in S THEN <<i>> ELSE << >>) \o Filtered(S, i + 1, n)

CandidateLists(ws) == { Filtered(S, 1, Len(ws)) : S \in SUBSET (1..Len(ws)) \ { {} } }

(* ------------------ processor.rs: the acquire retries ------------------ *)
(* processor.rs:125-137 for a task that selected an endpoint like E. The
   endpoint is shared (Arc): seen[i] is the in_flight the i-th acquire call of
   the task finds, whatever the other holders of the endpoint did before it.
   The result is the calls and sleeps of the task in order. *)
acquire_at(E, n) ==
    IF acquire([E EXCEPT !.in_flight = n]).ok THEN "acquire: true" ELSE "acquire: false"

(* Variant: without a slot after the third call the request is not sent. *)
acquire_retries_giving_up(E, seen) ==
    IF acquire_at(E, seen[1]) = "acquire: true"
        THEN << "acquire: true", "send_with_retry" >>
        ELSE IF acquire_at(E, seen[2]) = "acquire: true"
                 THEN << "acquire: false", "sleep 10 ms", "acquire: true", "send_with_retry" >>
                 ELSE IF acquire_at(E, seen[3]) = "acquire: true"
                          THEN << "acquire: false", "sleep 10 ms", "acquire: false",
                                  "sleep 100 ms", "acquire: true", "send_with_retry" >>
                          ELSE << "acquire: false", "sleep 10 ms", "acquire: false",
                                  "sleep 100 ms", "acquire: false" >>

acquire_retries(E, seen) ==
    IF acquire_at(E, seen[1]) = "acquire: true"
        THEN << "acquire: true", "send_with_retry" >>
        ELSE << "acquire: false", "sleep 10 ms" >> \o
             (IF acquire_at(E, seen[2]) = "acquire: true"
                  THEN << "acquire: true", "send_with_retry" >>
                  ELSE << "acquire: false", "sleep 100 ms",
                          acquire_at(E, seen[3]), "send_with_retry" >>)

(* ---------------- the tracker called from several threads -------------- *)
(* StatsTracker is Sync: threads may be inside record_recent and
   requests_per_second at once. Each reads Instant::now() first and takes the
   mutex of recent_requests afterwards; what it does under the mutex is one
   step. Time is counted in ticks of half a second. calls.clock is the time,
   calls.recent the deque, calls.returned <<now>> of the call that returned
   in the last step; threads[t] holds the position and the now of thread t. *)
pop_old(recent, cutoff) ==
    LET kept[i \in 1..(Len(recent) + 1)] ==
            IF i > Len(recent) THEN i
            ELSE IF recent[i] < cutoff THEN kept[i + 1] ELSE i
    IN  SubSeq(recent, kept[1], Len(recent))

record_recent(recent, now) == pop_old(Append(recent, now), now - OneSecond)

requests_per_second(recent, now) == pop_old(recent, now - OneSecond)

InitRecent ==
    /\ config = [max_attempts |-> 0, output |-> FALSE]
    /\ endpoints = << >>
    /\ tasks = << >>
    /\ success_sink = EmptyBag
    /\ failure_sink = EmptyBag
    /\ stats = ZeroStats
    /\ flushed = [success |-> TRUE, failure |-> TRUE]
    /\ ghost = << >>
    /\ processing_result = << >>
    /\ calls = [clock |-> 0, recent |-> << >>, returned |-> << >>, records |-> 0]
    /\ threads = [t \in Threads |-> [pc |-> "idle", now |-> 0]]

Tick ==
    /\ calls.clock < MaxClock
    /\ calls' = [calls EXCEPT !.clock = @ + 1, !.returned = << >>]
    /\ UNCHANGED <<config, endpoints, tasks, success_sink, failure_sink, stats, flushed,
                   ghost, processing_result, threads>>

(* tracker.rs:67: record_recent is entered and reads the clock. *)
BeginRecordRecent(t) ==
    /\ threads[t].pc = "idle"
    /\ calls.records < MaxCalls
    /\ threads' = [threads EXCEPT ![t] = [pc |-> "record_recent", now |-> calls.clock]]
    /\ calls' = [calls EXCEPT !.records = @ + 1, !.returned = << >>]
    /\ UNCHANGED <<config, endpoints, tasks, success_sink, failure_sink, stats, flushed,
                   ghost, processing_result>>

(* tracker.rs:68-80: under the mutex, push now and pop the old entries. *)
LockedRecordRecent(t) ==
    /\ threads[t].pc = "record_recent"
    /\ calls' = [calls EXCEPT !.recent = record_recent(@, threads[t].now),
                              !.returned = <<threads[t].now>>]
    /\ threads' = [threads EXCEPT ![t].pc = "idle"]
    /\ UNCHANGED <<config, endpoints, tasks, success_sink, failure_sink, stats, flushed,
                   ghost, processing_result>>

(* tracker.rs:84: requests_per_second is entered and reads the clock. *)
BeginRequestsPerSecond(t) ==
    /\ threads[t].pc = "idle"
    /\ threads' = [threads EXCEPT ![t] = [pc |-> "requests_per_second", now |-> calls.clock]]
    /\ calls' = [calls EXCEPT !.returned = << >>]
    /\ UNCHANGED <<config, endpoints, tasks, success_sink, failure_sink, stats, flushed,
                   ghost, processing_result>>

(* tracker.rs:85-97: under the mutex, pop the old entries and count. *)
LockedRequestsPerSecond(t) ==
    /\ threads[t].pc = "requests_per_second"
    /\ calls' = [calls EXCEPT !.recent = requests_per_second(@, threads[t].now),
                              !.returned = <<threads[t].now>>]
    /\ threads' = [threads EXCEPT ![t].pc = "idle"]
    /\ UNCHANGED <<config, endpoints, tasks, success_sink, failure_sink, stats, flushed,
                   ghost, processing_result>>

NextRecent ==
    \/ Tick
    \/ \E t \in Threads : BeginRecordRecent(t)
    \/ \E t \in Threads : LockedRecordRecent(t)
    \/ \E t \in Threads : BeginRequestsPerSecond(t)
    \/ \E t \in Threads : LockedRequestsPerSecond(t)

SpecRecent == InitRecent /\ [][NextRecent]_vars

(* ----------------------- the locks of process_file ---------------------- *)
(* The locks taken by the request futures and by process_file itself, one
   step per lock, unlock and await. tasks[r] is the position of request r,
   the locks it holds and its outcome; calls is the position of process_file
   after the stream and the locks it holds. The request futures are polled by
   one task: while one of them is inside synchronous code (an endpoint method,
   block_on) no other moves. *)
SuspensionPoints == {"send", "write_line", "write_newline", "collect", "flush_output", "flush_errors"}

InSynchronousCode(r) == tasks[r].pc \in {"health_guard", "result", "write_line", "write_newline"}

Polled(r) == \A q \in Requests \ {r} : ~InSynchronousCode(q)

InitSink ==
    /\ config \in {[max_attempts |-> 1, output |-> o] : o \in BOOLEAN}
    /\ endpoints = << >>
    /\ tasks = [r \in Requests |-> [pc |-> "send", held |-> {}, outcome |-> "none"]]
    /\ success_sink = EmptyBag
    /\ failure_sink = EmptyBag
    /\ stats = ZeroStats
    /\ flushed = [success |-> TRUE, failure |-> TRUE]
    /\ ghost = << >>
    /\ processing_result = << >>
    /\ calls = [pc |-> "collect", held |-> {}]
    /\ threads = << >>

SinkUnchanged ==
    UNCHANGED <<config, endpoints, success_sink, failure_sink, stats, flushed, ghost,
                processing_result, threads>>

(* client.rs:66-74, 116; endpoint.rs:73-80: the send returns and
   record_success or record_failure takes the guard of healthy. *)
TakeHealthGuard(r) ==
    /\ tasks[r].pc = "send"
    /\ Polled(r)
    /\ \E o \in {"success", "failure"} :
          tasks' = [tasks EXCEPT ![r] = [pc |-> "health_guard", held |-> {"endpoint guard"},
                                         outcome |-> o]]
    /\ UNCHANGED calls
    /\ SinkUnchanged

(* endpoint.rs:73-80: the guard is dropped when the statement ends. *)
DropHealthGuard(r) ==
    /\ tasks[r].pc = "health_guard"
    /\ tasks' = [tasks EXCEPT ![r].pc = "result", ![r].held = {}]
    /\ UNCHANGED calls
    /\ SinkUnchanged

(* processor.rs:149-151, 160-161: the sink locked for an outcome. *)
sink_of(outcome, output) ==
    IF outcome = "failure" THEN {"error_writer"}
    ELSE IF output THEN {"output_writer"} ELSE {}

(* processor.rs:140-166: writer.lock() and the entry into block_on, or no
   write when there is no output file. *)
LockSink(r) ==
    /\ tasks[r].pc = "result"
    /\ LET sink == sink_of(tasks[r].outcome, config.output)
       IN  IF tasks[r].outcome = "success" /\ ~config.output
               THEN tasks' = [tasks EXCEPT ![r].pc = "done"]
               ELSE tasks' = [tasks EXCEPT ![r].pc = "write_line", ![r].held = sink]
    /\ UNCHANGED calls
    /\ SinkUnchanged

(* processor.rs:153, 163: w.write_all(line.as_bytes()).await returns. *)
WriteLine(r) ==
    /\ tasks[r].pc = "write_line"
    /\ tasks' = [tasks EXCEPT ![r].pc = "write_newline"]
    /\ UNCHANGED calls
    /\ SinkUnchanged

(* processor.rs:154-156, 164-165: w.write_all(b"\n").await returns and the
   guard goes out of scope. *)
WriteNewline(r) ==
    /\ tasks[r].pc = "write_newline"
    /\ tasks' = [tasks EXCEPT ![r].pc = "done", ![r].held = {}]
    /\ UNCHANGED calls
    /\ SinkUnchanged

(* processor.rs:185-192: the stream is collected; writer.lock() and
   w.flush().await begins, or there is no output file. *)
FlushOutput ==
    /\ calls.pc = "collect"
    /\ \A r \in Requests : tasks[r].pc = "done"
    /\ calls' = IF config.output THEN [pc |-> "flush_output", held |-> {"output_writer"}]
                                 ELSE [pc |-> "output_flushed", held |-> {}]
    /\ UNCHANGED tasks
    /\ SinkUnchanged

(* processor.rs:191-192: the flush returns and the guard is dropped. *)
OutputFlushed ==
    /\ calls.pc = "flush_output"
    /\ calls' = [pc |-> "output_flushed", held |-> {}]
    /\ UNCHANGED tasks
    /\ SinkUnchanged

(* processor.rs:193-195: error_writer.lock() and w.flush().await begins. *)
FlushErrors ==
    /\ calls.pc = "output_flushed"
    /\ calls' = [pc |-> "flush_errors", held |-> {"error_writer"}]
    /\ UNCHANGED tasks
    /\ SinkUnchanged

(* processor.rs:195-196: the flush returns and the guard is dropped. *)
ErrorsFlushed ==
    /\ calls.pc = "flush_errors"
    /\ calls' = [pc |-> "complete", held |-> {}]
    /\ UNCHANGED tasks
    /\ SinkUnchanged

NextSink ==
    \/ \E r \in Requests : TakeHealthGuard(r)
    \/ \E r \in Requests : DropHealthGuard(r)
    \/ \E r \in Requests : LockSink(r)
    \/ \E r \in Requests : WriteLine(r)
    \/ \E r \in Requests : WriteNewline(r)
    \/ FlushOutput
    \/ OutputFlushed
    \/ FlushErrors
    \/ ErrorsFlushed

SpecSink == InitSink /\ [][NextSink]_vars

(* ------------------- process_file dropped by its caller ---------------- *)
(* The future of process_file is dropped while a request is at an await of
   send_with_retry (client.rs:70, 110): the request futures are dropped with
   it where they stand, and no code of theirs runs any more. *)
Cancel ==
    /\ processing_result = << >>
    /\ \E r \in Requests : tasks[r].pc \in {"http", "backoff"}
    /\ tasks' = [r \in Requests |->
                    IF tasks[r].pc = "done" THEN tasks[r]
                    ELSE [tasks[r] EXCEPT !.pc = "cancelled"]]
    /\ UNCHANGED <<config, endpoints, success_sink, failure_sink, stats, flushed, ghost,
                   processing_result, calls, threads>>

NextCancel == Next \/ Cancel

SpecCancel == Init /\ [][NextCancel]_vars

(* ------------------ process_file called a second time ------------------ *)
(* process_file takes &self: a Processor runs it again over the same
   LoadBalancer and StatsTracker. The run starts from what an earlier run with
   two requests left behind, both sent to endpoint 1 and both failed; the
   sinks are created anew (processor.rs:63-78). *)
InitRerun ==
    /\ config \in [max_attempts : 1..MaxAttempts, output : {FALSE}]
    /\ endpoints = [e \in 1..NumEndpoints |->
                       IF e = 1
                           THEN record_failure(record_failure(NewEndpoint(e, MaxSlots)))
                           ELSE NewEndpoint(e, MaxSlots)]
    /\ tasks = [r \in Requests |->
                   [ pc |-> "queued", ep |-> 0, attempts |-> 0, last_error |-> None,
                     last_status |-> NoStatus, result |-> None ]]
    /\ success_sink = EmptyBag
    /\ failure_sink = EmptyBag
    /\ stats = stats_record_failure(stats_record_failure(ZeroStats))
    /\ flushed = [success |-> TRUE, failure |-> TRUE]
    /\ ghost = [r \in Requests |->
                   [ sent |-> FALSE, acquired |-> FALSE, acquire_calls |-> 0,
                     releases |-> 0, issued |-> 0, backoffs |-> 0, response |-> NoResponse,
                     records |-> << >>, probe |-> FALSE ]]
    /\ processing_result = << >>
    /\ calls = << >>
    /\ threads = << >>

SpecRerun == InitRerun /\ [][Next]_vars

(* ------------------- functions called on their own --------------------- *)
(* A function of the crate is applied to inputs drawn from bounded sets;
   calls is <<the call>>: its name, its arguments and what it returned. *)
InitFn ==
    /\ config = [max_attempts |-> 0, output |-> FALSE]
    /\ endpoints = << >>
    /\ tasks = << >>
    /\ success_sink = EmptyBag
    /\ failure_sink = EmptyBag
    /\ stats = ZeroStats
    /\ flushed = [success |-> TRUE, failure |-> TRUE]
    /\ ghost = << >>
    /\ processing_result = << >>
    /\ calls = << >>
    /\ threads = << >>

(* client.rs:110: calculate_backoff(attempts) for some retry configuration. *)
CalculateBackoff ==
    /\ \E retry \in RetryConfigs : \E attempt \in 1..(MaxAttempts + 1) :
       \E r \in 0..(JitterSteps - 1) :
           calls' = << [ fn |-> "calculate_backoff", retry |-> retry, attempt |-> attempt,
                         rand |-> r, result |-> calculate_backoff(retry, attempt, r) ] >>
    /\ UNCHANGED <<config, endpoints, tasks, success_sink, failure_sink, stats, flushed,
                   ghost, processing_result, threads>>

(* main: Config::from_args validates the configuration and exits on Err;
   otherwise Processor::new builds the balancer and process_file starts
   (started).  LoadBalancer::new is recorded for the endpoint list alone, as
   a caller of the library gets it. *)
LoadConfig ==
    /\ \E c \in Configs :
           LET valid == validate(c)
               lb    == LoadBalancer_new(c.endpoints)
           IN  calls' = << [ fn |-> "validate", config |-> c, result |-> valid,
                             balancer |-> lb,
                             started |-> (valid = "Ok" /\ lb.result = "Ok") ] >>
    /\ UNCHANGED <<config, endpoints, tasks, success_sink, failure_sink, stats, flushed,
                   ghost, processing_result, threads>>

(* process_file up to the creation of the writers: read_requests(...)? comes
   first, so an Err returns before a file is created or a request is turned
   into a future; dispatched is the number of requests handed to the stream. *)
ReadRequests ==
    /\ \E file \in Files :
           LET read == read_requests(file)
           IN  calls' = << [ fn |-> "read_requests", file |-> file, result |-> read,
                             dispatched |-> IF read.result = "Ok"
                                                THEN Len(read.requests)
                                                ELSE 0 ] >>
    /\ UNCHANGED <<config, endpoints, tasks, success_sink, failure_sink, stats, flushed,
                   ghost, processing_result, threads>>

(* client.rs:64: the body sent for a request to an endpoint with or without
   a model. *)
BuildLlmBody ==
    /\ \E request \in ApiRequests : \E model \in Models :
           calls' = << [ fn |-> "build_llm_body", request |-> request, model |-> model,
                         result |-> build_llm_body(request, model) ] >>
    /\ UNCHANGED <<config, endpoints, tasks, success_sink, failure_sink, stats, flushed,
                   ghost, processing_result, threads>>

(* endpoint.rs:208-222 for one draw of random_range(0..total). *)
WeightedSelect ==
    /\ \E ws \in WeightLists : \E cands \in CandidateLists(ws) :
       \E pick \in 0..(TotalWeight(EndpointsOf(ws), cands) - 1) :
           calls' = << [ fn |-> "weighted_select", eps |-> EndpointsOf(ws),
                         cands |-> cands, pick |-> pick,
                         result |-> weighted_select(EndpointsOf(ws), cands, pick) ] >>
    /\ UNCHANGED <<config, endpoints, tasks, success_sink, failure_sink, stats, flushed,
                   ghost, processing_result, threads>>

(* processor.rs:125-137 for an endpoint of up to MaxSlots slots and every
   occupancy the three acquire calls can find. *)
AcquireRetries ==
    /\ \E mc \in 1..MaxSlots : \E seen \in [1..3 -> 0..MaxSlots] :
           calls' = << [ fn |-> "acquire_retries", max_concurrent |-> mc, seen |-> seen,
                         result |-> acquire_retries(NewEndpoint(1, mc), seen) ] >>
    /\ UNCHANGED <<config, endpoints, tasks, success_sink, failure_sink, stats, flushed,
                   ghost, processing_result, threads>>

NextFn ==
    \/ CalculateBackoff
    \/ LoadConfig
    \/ ReadRequests
    \/ BuildLlmBody
    \/ WeightedSelect
    \/ AcquireRetries

SpecFn == InitFn /\ [][NextFn]_vars

(* ------------------------------ claims --------------------------------- *)
Done(r) == tasks[r].pc = "done"

Completed == processing_result # << >>

(* The number of lines of a sink written for request r. *)
SinkCount(sink, r) ==
    LET mine == { l \in BagToSet(sink) : l.task = r }
    IN  BagCardinality([l \in mine |-> sink[l]])

LinesFor(r) == SinkCount(success_sink, r) + SinkCount(failure_sink, r)

(* C1: with both sinks configured, every request the dispatcher has processed
   has exactly one output line, in the success sink or in the failure sink. *)
C1_ExactlyOneRecord ==
    config.output => \A r \in Requests : Done(r) => LinesFor(r) = 1

(* C2: a request whose endpoint selection failed with AllUnhealthy ends as a
   Failure: one line in the failure sink with error "no endpoints available",
   counted by the stats tracker as a failure. *)
C2_SelectionFailureRouted ==
    /\ \A r \in Requests :
           tasks[r].result = "Err" =>
               \E l \in BagToSet(failure_sink) :
                   l.line_number = r /\ l.error = "no endpoints available"
    /\ stats.failure_count =
           Cardinality({ r \in Requests : tasks[r].result \in {"Failure", "Err"} })

(* C3: in_flight of every endpoint never underflows (it is >= 0 in every
   state) and is 0 once process_file has completed. *)
C3_InFlightNonNegative ==
    \A e \in DOMAIN endpoints :
        /\ endpoints[e].in_flight >= 0
        /\ Completed => endpoints[e].in_flight = 0

(* A run that completed with a success, a failure and a refused selection. *)
C3_Witness ==
    /\ Completed
    /\ \E r \in Requests : tasks[r].result = "Success"
    /\ \E r \in Requests : tasks[r].result = "Failure"
    /\ \E r \in Requests : tasks[r].result = "Err"
    /\ \A e \in DOMAIN endpoints : endpoints[e].in_flight = 0

(* C4: release is called for a request only if an acquire made for that
   request returned true before; a task whose acquire calls all returned
   false causes no release. *)
C4_ReleaseOnlyAfterAcquire ==
    \A r \in Requests : ghost[r].releases > 0 => ghost[r].acquired

C4_Witness ==
    \E r \in Requests :
        ghost[r].releases = 1 /\ ghost[r].acquired /\ ghost[r].acquire_calls = 1

(* C5: every endpoint has in_flight <= max_concurrent in every state. *)
C5_InFlightWithinCapacity ==
    \A e \in DOMAIN endpoints :
        ~ULt(endpoints[e].max_concurrent, endpoints[e].in_flight)

(* Two tasks run at once, one holds the only slot of a saturated endpoint. *)
C5_Witness ==
    \E e \in DOMAIN endpoints : \E r, q \in Requests :
        /\ endpoints[e].in_flight = endpoints[e].max_concurrent
        /\ tasks[r].pc = "http" /\ tasks[r].ep = e
        /\ q # r /\ tasks[q].pc = "rate"

(* C6: with the workers sharing the endpoints, in_flight never exceeds
   max_concurrent + workers, and it is 0 at completion. *)
C6_PeakWithinOverCommit ==
    \A e \in DOMAIN endpoints :
        /\ ~ULt(endpoints[e].max_concurrent + Workers, endpoints[e].in_flight)
        /\ Completed => endpoints[e].in_flight = 0

(* One endpoint shared by all workers, every request sent to it. *)
C6_Witness ==
    /\ Len(endpoints) = 1
    /\ Completed
    /\ \A r \in Requests : ghost[r].sent /\ ghost[r].releases = 1
    /\ endpoints[1].in_flight = 0
(* C7: every send_with_retry that ran to completion called endpoint.release()
   exactly once, whichever way it ended; one still running has not called it. *)
C7_ReleaseExactlyOnce ==
    \A r \in Requests :
        /\ (ghost[r].sent /\ Done(r)) => ghost[r].releases = 1
        /\ (ghost[r].sent /\ ~Done(r)) => ghost[r].releases = 0
        /\ ~ghost[r].sent => ghost[r].releases = 0

(* The three ways out: success on a later attempt, a non-retryable status, and
   max_attempts retryable failures. *)
C7_Witness ==
    \E a, b, c \in Requests :
        /\ tasks[a].result = "Success" /\ tasks[a].attempts = 2
        /\ tasks[b].result = "Failure" /\ tasks[b].last_status = 403
        /\ tasks[c].result = "Failure" /\ tasks[c].last_status = 500
        /\ tasks[c].attempts = config.max_attempts
        /\ \A r \in {a, b, c} : ghost[r].releases = 1

TerminatedOn(e) ==
    { r \in Requests : ghost[r].sent /\ Done(r) /\ tasks[r].ep = e }

(* C8: at completion success_count + failure_count of every endpoint is the
   number of requests handed to send_with_retry on it that terminated, and
   neither counter ever decreases. *)
C8_CountsMatchTerminated ==
    /\ [](Completed =>
            \A e \in DOMAIN endpoints :
                endpoints[e].success_count + endpoints[e].failure_count
                    = Cardinality(TerminatedOn(e)))
    /\ [][\A e \in DOMAIN endpoints :
              /\ endpoints'[e].success_count >= endpoints[e].success_count
              /\ endpoints'[e].failure_count >= endpoints[e].failure_count]_vars

C8_Witness ==
    /\ Completed
    /\ \E e \in DOMAIN endpoints :
           /\ endpoints[e].success_count >= 1
           /\ endpoints[e].failure_count >= 1
           /\ Cardinality(TerminatedOn(e)) >= 2

(* The attempt of request r that was in flight ends in this step. *)
AttemptEnds(r) == tasks[r].pc = "http" /\ tasks'[r].pc # "http"

FailureLine(sink, r) == { l \in BagToSet(sink) : l.line_number = r }

(* C9: an attempt answered with 400, 401, 403 or 404 is followed by no backoff
   and no further attempt: the request ends as a Failure carrying that status;
   when it is the first response the Failure has attempts = 1, success_count of
   the endpoint is unchanged and failure_count is one more. *)
C9_NonRetryableStops ==
    [][\A r \in Requests :
          /\ (AttemptEnds(r) /\ ghost'[r].response.kind = "response"
                 /\ ghost'[r].response.status \in {400, 401, 403, 404}) =>
                 /\ tasks'[r].pc = "done" /\ tasks'[r].result = "Failure"
                 /\ ghost'[r].backoffs = ghost[r].backoffs
                 /\ ghost'[r].issued = ghost[r].issued
                 /\ \E l \in FailureLine(failure_sink', r) :
                        /\ l.status_code = ghost'[r].response.status
                        /\ l.attempts = ghost[r].issued
                 /\ ghost[r].issued = 1 =>
                        /\ \A l \in FailureLine(failure_sink', r) : l.attempts = 1
                        /\ endpoints'[tasks[r].ep].success_count
                               = endpoints[tasks[r].ep].success_count
                        /\ endpoints'[tasks[r].ep].failure_count
                               = endpoints[tasks[r].ep].failure_count + 1
          /\ Done(r) => (tasks'[r] = tasks[r] /\ ghost'[r] = ghost[r])]_vars

(* A 401 on the first attempt: one failure line, attempts 1, the endpoint with
   no success and one failure. *)
C9_Witness ==
    \E r \in Requests :
        /\ Done(r) /\ ghost[r].response.status = 401 /\ ghost[r].issued = 1
        /\ config.max_attempts = 2
        /\ \E l \in FailureLine(failure_sink, r) : l.status_code = 401 /\ l.attempts = 1
        /\ endpoints[tasks[r].ep].success_count = 0
        /\ endpoints[tasks[r].ep].failure_count = 1

(* The attempts the claim calls retryable failures. *)
RetryableFailure(resp) ==
    \/ resp.kind = "transport"
    \/ /\ resp.kind = "response"
       /\ resp.status \notin {400, 401, 403, 404}
       /\ ~(resp.status >= 200 /\ resp.status < 300 /\ resp.json)

ErrorOf(resp) ==
    IF resp.kind = "transport" THEN "Request failed"
    ELSE IF resp.status >= 200 /\ resp.status < 300 THEN "Failed to parse response"
    ELSE "HTTP"

(* C10: an attempt that ends in a retryable error is followed by a backoff and
   another attempt while attempts < max_attempts; otherwise the request ends as
   a Failure after exactly max_attempts attempts, with the error and status of
   that last attempt. *)
C10_RetryUntilMaxAttempts ==
    [][\A r \in Requests :
          /\ (AttemptEnds(r) /\ RetryableFailure(ghost'[r].response)) =>
                 IF ghost[r].issued < config.max_attempts
                     THEN tasks'[r].pc = "backoff" /\ tasks'[r].result = None
                     ELSE /\ tasks'[r].pc = "done" /\ tasks'[r].result = "Failure"
                          /\ ghost[r].issued = config.max_attempts
                          /\ \E l \in FailureLine(failure_sink', r) :
                                 /\ l.attempts = config.max_attempts
                                 /\ l.status_code = ghost'[r].response.status
                                 /\ l.error = ErrorOf(ghost'[r].response)
          /\ (tasks[r].pc = "backoff" /\ tasks'[r] # tasks[r]) =>
                 /\ tasks'[r].pc = "http"
                 /\ ghost'[r].issued = ghost[r].issued + 1]_vars

(* A request that met a retryable error on each of its max_attempts = 2
   attempts, the last one a 429. *)
C10_Witness ==
    \E r \in Requests :
        /\ Done(r) /\ tasks[r].result = "Failure"
        /\ config.max_attempts = 2 /\ ghost[r].issued = 2 /\ ghost[r].backoffs = 1
        /\ ghost[r].response.status = 429
        /\ \E l \in FailureLine(failure_sink, r) : l.attempts = 2 /\ l.status_code = 429

(* C11: a Success carries metadata.attempts between 1 and max_attempts, equal
   to the number of HTTP attempts issued for the request. Checked on the step
   that returns the Success, whatever the sink configuration. *)
SuccessLine(w, r) == { l \in BagToSet(w) : l.task = r }

C11_SuccessAttempts ==
    /\ \A r \in Requests : \A l \in SuccessLine(success_sink, r) :
           /\ 1 <= l.attempts
           /\ l.attempts <= config.max_attempts
           /\ l.attempts = ghost[r].issued
    /\ \A r \in Requests :
           tasks[r].result = "Success" =>
               /\ 1 <= tasks[r].attempts
               /\ tasks[r].attempts <= config.max_attempts
               /\ tasks[r].attempts = ghost[r].issued

(* A retryable failure followed by a 200: Success with attempts = max_attempts. *)
C11_Witness ==
    \E r \in Requests : \E l \in SuccessLine(success_sink, r) :
        /\ l.attempts = MaxAttempts
        /\ config.max_attempts = MaxAttempts
        /\ ghost[r].backoffs = MaxAttempts - 1
        /\ ghost[r].issued = MaxAttempts

(* C12: an endpoint starts healthy; after record_success / record_failure
   calls made one at a time it is unhealthy exactly when its last three (or
   more) outcomes are all failures; a record_success leaves
   consecutive_failures = 0 and healthy = true; mark_unhealthy followed by
   mark_healthy leaves it healthy. *)
OnlyOutcomes(h) == \A i \in 1..Len(h) : h[i] \in {"record_success", "record_failure"}

LastThreeFailed(h) ==
    Len(h) >= 3 /\ \A i \in (Len(h) - 2)..Len(h) : h[i] = "record_failure"

C12_HealthFollowsOutcomes ==
    \A e \in DOMAIN endpoints :
        LET h == calls.history[e]
            E == endpoints[e]
        IN  /\ h = << >> => E.healthy
            /\ OnlyOutcomes(h) => (~E.healthy <=> LastThreeFailed(h))
            /\ (h # << >> /\ h[Len(h)] = "record_success") =>
                   E.healthy /\ E.consecutive_failures = 0
            /\ (Len(h) >= 2 /\ h[Len(h) - 1] = "mark_unhealthy"
                            /\ h[Len(h)] = "mark_healthy") => E.healthy

(* Three failures quarantine the endpoint and a success brings it back. *)
C12_Witness ==
    \E e \in DOMAIN endpoints :
        /\ calls.history[e] =
               <<"record_failure", "record_failure", "record_failure", "record_success">>
        /\ endpoints[e].healthy
        /\ endpoints[e].consecutive_failures = 0

(* C13: under any interleaving of concurrent record_success and
   record_failure calls on one endpoint, in every quiescent state (no call in
   progress) the endpoint is unhealthy only if consecutive_failures >= 3. *)
Quiescent == \A t \in Threads : threads[t].pc = "idle"

C13_UnhealthyOnlyAfterThree ==
    Quiescent => (~endpoints[1].healthy => endpoints[1].consecutive_failures >= 3)

(* C14: when some endpoint is healthy with in_flight < max_concurrent at the
   time of the call, select returns an endpoint that is healthy and has
   in_flight < max_concurrent, never a saturated or an unhealthy one. *)
HasCapacity(E) == 0 <= E.in_flight /\ E.in_flight < E.max_concurrent

Selected(e) == calls.selected = <<e>>

C14_FastPathHealthyWithCapacity ==
    (\E f \in DOMAIN endpoints : endpoints[f].healthy /\ HasCapacity(endpoints[f])) =>
        \A x \in Endpoints \cup {AllEndpointsUnhealthy} :
            Selected(x) =>
                /\ x \in DOMAIN endpoints
                /\ endpoints[x].healthy
                /\ HasCapacity(endpoints[x])
                /\ endpoints[x].in_flight # endpoints[x].max_concurrent

(* select returned the one endpoint with capacity; the other one is healthy
   and saturated. *)
C14_Witness ==
    \E e, f \in DOMAIN endpoints :
        /\ Selected(e)
        /\ endpoints[e].healthy /\ HasCapacity(endpoints[e])
        /\ endpoints[f].healthy /\ endpoints[f].in_flight = endpoints[f].max_concurrent

(* C15: when no endpoint is healthy with spare capacity, select returns an
   endpoint with in_flight < max_concurrent that is healthy, or quarantined
   for at least the cooldown, or has no last_health_check; it returns
   AllEndpointsUnhealthy exactly when no endpoint is like that; an endpoint
   quarantined for less than the cooldown is never returned. *)
Quarantined(E) == ~E.healthy /\ E.last_health_check = "Recent"

Eligible(E) == HasCapacity(E) /\ ~Quarantined(E)

C15_RecoveryPath ==
    /\ \A x \in DOMAIN endpoints : Selected(x) => ~Quarantined(endpoints[x])
    /\ (\A f \in DOMAIN endpoints : ~(endpoints[f].healthy /\ HasCapacity(endpoints[f]))) =>
           /\ \A x \in DOMAIN endpoints : Selected(x) => Eligible(endpoints[x])
           /\ Selected(AllEndpointsUnhealthy) =>
                  \A f \in DOMAIN endpoints : ~Eligible(endpoints[f])
           /\ (calls.selected # << >> /\ \A f \in DOMAIN endpoints : ~Eligible(endpoints[f]))
                  => Selected(AllEndpointsUnhealthy)

(* Every endpoint is quarantined; the cooldown of one has expired and select
   returned it, not the one still cooling down. *)
C15_Witness ==
    \E e, f \in DOMAIN endpoints :
        /\ Selected(e)
        /\ ~endpoints[e].healthy /\ endpoints[e].last_health_check = "Expired"
        /\ Quarantined(endpoints[f]) /\ HasCapacity(endpoints[f])

(* C17: at every moment at most Workers request tasks have started and not
   terminated; while unstarted requests remain, a slot freed by a terminating
   task is filled before any other task runs. *)
RunningTasks == {r \in Requests : Running(r)}

C17_BoundedConcurrency ==
    /\ [](Cardinality(RunningTasks) <= Workers)
    /\ [][ StartPending =>
              \/ \E r \in Requests : tasks[r].pc = "queued" /\ tasks'[r].pc = "rate"
              \/ tasks' = tasks ]_vars

(* Request 1 has terminated, the last request has taken its slot and Workers
   tasks are running. *)
C17_Witness ==
    /\ tasks[1].pc = "done"
    /\ Running(NumRequests)
    /\ Cardinality(RunningTasks) = Workers

(* C18: with every HTTP attempt ending and fair scheduling, process_file
   eventually returns, and it returns only after every request of the input
   has been started and its task has terminated (so every task eventually
   terminates), with both sinks flushed. *)
C18_TerminatesAfterAllTasks ==
    /\ <>Completed
    /\ [](Completed => /\ \A r \in Requests : Done(r)
                       /\ flushed.success /\ flushed.failure)

(* process_file has returned after writing to both sinks. *)
C18_Witness ==
    /\ Completed
    /\ success_sink # EmptyBag
    /\ failure_sink # EmptyBag
    /\ flushed.success /\ flushed.failure

(* C19: a per-request error (HTTP failure, retries exhausted, endpoint
   selection failure) never aborts the run: when process_file returns, every
   request of the input has been dispatched and has returned, and
   total_processed is the number of parsed requests. *)
C19_ErrorsDoNotAbort ==
    Completed =>
        /\ \A r \in Requests : tasks[r].result \in {"Success", "Failure", "Err"}
        /\ processing_result[1].total_processed = NumRequests

(* A run with a failed request and a selection failure before the last
   request, which was still dispatched and succeeded. *)
C19_Witness ==
    /\ Completed
    /\ processing_result[1].total_processed = NumRequests
    /\ tasks[1].result = "Failure"
    /\ tasks[2].result = "Err"
    /\ tasks[NumRequests].result = "Success"

(* C20: a parsed input record, also one with only a custom body, has its echo
   (input or body) or its line_number in exactly one record across the two
   sinks. Stated for the requests send_with_retry returned an outcome for, in
   a run with the success sink configured. *)
EchoedIn(sink, r, fields) ==
    LET mine == { l \in BagToSet(sink) :
                    \/ Input(r) # << >> /\ l.input = Input(r)
                    \/ "body" \in fields /\ Body(r) # << >> /\ l.body = Body(r)
                    \/ "line_number" \in fields /\ l.line_number = r }
    IN  BagCardinality([l \in mine |-> sink[l]])

(* ApiResponse serializes input, response and metadata; ErrorResponse also
   body and line_number. *)
Echoes(r) ==
    EchoedIn(success_sink, r, {"input"})
        + EchoedIn(failure_sink, r, {"input", "body", "line_number"})

C20_RoundTrip ==
    config.output =>
        \A r \in Requests :
            tasks[r].result \in {"Success", "Failure"} => Echoes(r) = 1

(* C21 as stated: calculate_backoff(n) is min(x, max_backoff) for some x in
   [0.75, 1.25) * initial_backoff * multiplier^(n-1), so it never exceeds
   max_backoff; with the defaults backoff(1) < 1 s, backoff(2) < 2 s and
   backoff(3) < 5 s. *)
Called(fn) == calls # << >> /\ calls[1].fn = fn

BackoffCeiling(c) ==
    /\ c.result <= c.retry.max_backoff
    /\ c.result < c.retry.max_backoff =>
           4 * c.result * backoff_ms(c.retry, c.attempt)[2]
               < 5 * backoff_ms(c.retry, c.attempt)[1]
    /\ c.result = c.retry.max_backoff =>
           4 * c.retry.max_backoff * backoff_ms(c.retry, c.attempt)[2]
               < 5 * backoff_ms(c.retry, c.attempt)[1]
              \/ 3 * backoff_ms(c.retry, c.attempt)[1]
                     <= 4 * c.result * backoff_ms(c.retry, c.attempt)[2]

BackoffDefaults(c) ==
    c.retry = DefaultRetry =>
        /\ c.attempt = 1 => c.result < 1000
        /\ c.attempt = 2 => c.result < 2000
        /\ c.attempt = 3 => c.result < 5000

C21_BackoffInRange ==
    Called("calculate_backoff") =>
        LET c == calls[1]
        IN  /\ BackoffCeiling(c)
            /\ BackoffDefaults(c)
            /\ c.result < c.retry.max_backoff =>
                   3 * backoff_ms(c.retry, c.attempt)[1]
                       <= 4 * c.result * backoff_ms(c.retry, c.attempt)[2]

(* C21 amended: the result is whole milliseconds, so below max_backoff it is
   floor(x) for some x in the range: more than 0.75 * initial_backoff *
   multiplier^(n-1) - 1 and less than 1.25 * initial_backoff *
   multiplier^(n-1); it never exceeds max_backoff and the bounds for the
   defaults hold. *)
C21_BackoffInRangeFloored ==
    Called("calculate_backoff") =>
        LET c == calls[1]
        IN  /\ BackoffCeiling(c)
            /\ BackoffDefaults(c)
            /\ c.result < c.retry.max_backoff =>
                   3 * backoff_ms(c.retry, c.attempt)[1]
                       < 4 * (c.result + 1) * backoff_ms(c.retry, c.attempt)[2]

(* A backoff below max_backoff whose fraction of a millisecond was dropped,
   leaving it under 0.75 * initial_backoff * multiplier^(n-1). *)
C21_Witness ==
    /\ Called("calculate_backoff")
    /\ calls[1].result < calls[1].retry.max_backoff
    /\ 4 * calls[1].result * backoff_ms(calls[1].retry, calls[1].attempt)[2]
           < 3 * backoff_ms(calls[1].retry, calls[1].attempt)[1]

Defective(c) ==
    \/ c.endpoints = << >>
    \/ \E i \in 1..Len(c.endpoints) : c.endpoints[i].url = ""
    \/ \E i \in 1..Len(c.endpoints) : c.endpoints[i].weight = 0
    \/ c.workers = 0

(* C22: a configuration with no endpoints, an empty url, a weight of 0 or
   workers = 0 is rejected by validate and no balancer is built, so nothing
   is dispatched; LoadBalancer::new of an empty list is NoEndpoints; any
   other configuration is accepted and every endpoint starts healthy with
   in_flight = 0. *)
C22_ConfigValidated ==
    Called("validate") =>
        LET c  == calls[1].config
            lb == calls[1].balancer
        IN  /\ Defective(c) =>
                   /\ calls[1].result # "Ok"
                   /\ ~calls[1].started
            /\ c.endpoints = << >> =>
                   /\ calls[1].result = "NoEndpoints"
                   /\ lb.result = "NoEndpoints"
            /\ ~Defective(c) =>
                   /\ calls[1].result = "Ok"
                   /\ calls[1].started
                   /\ lb.result = "Ok"
                   /\ Len(lb.endpoints) = Len(c.endpoints)
                   /\ \A i \in 1..Len(lb.endpoints) :
                          /\ lb.endpoints[i].healthy
                          /\ lb.endpoints[i].in_flight = 0
                          /\ lb.endpoints[i].weight = c.endpoints[i].weight

(* A configuration whose only defect is a second endpoint of weight 0 has
   been rejected. *)
C22_Witness ==
    /\ Called("validate")
    /\ Len(calls[1].config.endpoints) = 2
    /\ calls[1].config.workers > 0
    /\ \A i \in 1..2 : calls[1].config.endpoints[i].url # ""
    /\ calls[1].config.endpoints[1].weight > 0
    /\ calls[1].config.endpoints[2].weight = 0
    /\ calls[1].result # "Ok"
    /\ ~calls[1].started

Malformed(file) == { i \in 1..Len(file) : file[i] = "malformed" }

FirstMalformed(file) ==
    CHOOSE i \in Malformed(file) : \A j \in Malformed(file) : i <= j

(* C23: read_requests skips empty lines, numbers each request with the
   1-based position of its line in the file (empty lines counted), and at the
   first malformed line returns JsonParse with that line's number: nothing is
   dispatched and no line is written to either sink. *)
C23_ReadRequests ==
    Called("read_requests") =>
        LET file == calls[1].file
            read == calls[1].result
        IN  /\ Malformed(file) = {} =>
                   /\ read.result = "Ok"
                   /\ \A k \in 1..Len(read.requests) :
                          /\ read.requests[k] \in 1..Len(file)
                          /\ file[read.requests[k]] = "request"
                          /\ k > 1 => read.requests[k - 1] < read.requests[k]
                   /\ \A i \in 1..Len(file) :
                          file[i] = "request" =>
                              \E k \in 1..Len(read.requests) : read.requests[k] = i
                   /\ calls[1].dispatched = Len(read.requests)
            /\ Malformed(file) # {} =>
                   /\ read.result = "JsonParse"
                   /\ read.line = FirstMalformed(file)
                   /\ calls[1].dispatched = 0
                   /\ success_sink = EmptyBag
                   /\ failure_sink = EmptyBag

(* A file with an empty line, a request and then a malformed third line has
   been read. *)
C23_Witness ==
    /\ Called("read_requests")
    /\ Len(calls[1].file) >= 3
    /\ calls[1].file[1] = "empty"
    /\ calls[1].file[2] = "request"
    /\ calls[1].file[3] = "malformed"
    /\ calls[1].result.result = "JsonParse"
    /\ calls[1].result.line = 3

CallsOf(history, fn) == { i \in 1..Len(history) : history[i].fn = fn }

(* The recorded success latencies, in nanoseconds. *)
RECURSIVE SumOfLatencies(_)
SumOfLatencies(history) ==
    IF history = << >>
        THEN 0
        ELSE SumOfLatencies(Tail(history)) +
             (IF Head(history).fn = "record_success" THEN Head(history).latency ELSE 0)

(* The recorded success latencies, each in whole microseconds. *)
RECURSIVE SumOfMicros(_)
SumOfMicros(history) ==
    IF history = << >>
        THEN 0
        ELSE SumOfMicros(Tail(history)) +
             (IF Head(history).fn = "record_success"
                  THEN Head(history).latency \div 1000
                  ELSE 0)

SnapshotCounts ==
    calls.snapshot # << >> =>
        LET s == calls.snapshot[1]
        IN  /\ s.total_processed = s.success_count + s.failure_count
            /\ s.success_count = Cardinality(CallsOf(calls.history, "record_success"))
            /\ s.failure_count = Cardinality(CallsOf(calls.history, "record_failure"))
            /\ s.success_count = 0 => s.avg_latency_ms[1] = 0

CountersMonotonic ==
    /\ stats'.total_processed >= stats.total_processed
    /\ stats'.success_count >= stats.success_count
    /\ stats'.failure_count >= stats.failure_count
    /\ stats'.total_latency_us >= stats.total_latency_us

(* C24 as stated: after record_success and record_failure calls that have all
   returned, snapshot reports total_processed = success_count +
   failure_count, the counts of the calls, and a total latency equal to the
   sum of the recorded success latencies (avg 0 without a success); no
   counter ever decreases. *)
C24_SnapshotMatchesCalls ==
    /\ [](/\ SnapshotCounts
          /\ stats.total_latency_us * 1000 = SumOfLatencies(calls.history)
          /\ calls.snapshot # << >> /\ calls.snapshot[1].success_count > 0 =>
                 calls.snapshot[1].avg_latency_ms[1] * 1000 * calls.snapshot[1].success_count
                     = SumOfLatencies(calls.history) * calls.snapshot[1].avg_latency_ms[2])
    /\ [][CountersMonotonic]_vars

(* C24 amended: as stated, with the total latency equal to the sum of the
   recorded success latencies each truncated to whole microseconds, and the
   average that total over the number of successes. *)
C24_SnapshotMatchesCallsMicros ==
    /\ [](/\ SnapshotCounts
          /\ stats.total_latency_us = SumOfMicros(calls.history)
          /\ calls.snapshot # << >> /\ calls.snapshot[1].success_count > 0 =>
                 calls.snapshot[1].avg_latency_ms[1] * calls.snapshot[1].success_count * 1000
                     = SumOfMicros(calls.history) * calls.snapshot[1].avg_latency_ms[2])
    /\ [][CountersMonotonic]_vars

(* A snapshot taken after two successes with latencies that are not whole
   microseconds and a failure. *)
C24_Witness ==
    /\ calls.snapshot # << >>
    /\ calls.snapshot[1].success_count = 2
    /\ calls.snapshot[1].failure_count = 1
    /\ SumOfLatencies(calls.history) > 1000 * SumOfMicros(calls.history)

(* C25: build_llm_body returns a custom body unchanged, whatever the
   endpoint's model; without a custom body it returns an object with one user
   message whose content is the input, or "" without an input, and a model
   field exactly when the endpoint has a model. *)
C25_BuildLlmBody ==
    Called("build_llm_body") =>
        LET request == calls[1].request
            model   == calls[1].model
            result  == calls[1].result
        IN  /\ request.body # << >> => result = request.body[1]
            /\ request.body = << >> =>
                   /\ DOMAIN result \subseteq {"messages", "model"}
                   /\ Len(result.messages) = 1
                   /\ result.messages[1].role = "user"
                   /\ request.input # << >> =>
                          result.messages[1].content = request.input[1]
                   /\ request.input = << >> => result.messages[1].content = ""
                   /\ "model" \in DOMAIN result <=> model # << >>
                   /\ model # << >> => result.model = model[1]

(* A custom body without a model field was built for an endpoint that has a
   model. *)
C25_Witness ==
    /\ Called("build_llm_body")
    /\ calls[1].request.body = << [prompt |-> "hi"] >>
    /\ calls[1].model = <<"gpt">>
    /\ calls[1].result = [prompt |-> "hi"]

AcquireReturned(e) == calls.acquired # << >> /\ calls.acquired[1].ep = e

(* C26: an acquire call of the library returns true and adds exactly 1 to
   in_flight if and only if in_flight < max_concurrent before it; when it
   returns false in_flight is unchanged; the health flags, the counters and
   the other endpoints are never changed by it. *)
C26_AcquireFrame ==
    [][\A e \in DOMAIN endpoints :
           AcquireReturned(e)' =>
               /\ calls'.acquired[1].ok <=>
                      endpoints[e].in_flight < endpoints[e].max_concurrent
               /\ calls'.acquired[1].ok <=>
                      endpoints'[e].in_flight = endpoints[e].in_flight + 1
               /\ ~calls'.acquired[1].ok =>
                      endpoints'[e].in_flight = endpoints[e].in_flight
               /\ endpoints'[e].healthy = endpoints[e].healthy
               /\ endpoints'[e].last_health_check = endpoints[e].last_health_check
               /\ endpoints'[e].consecutive_failures = endpoints[e].consecutive_failures
               /\ endpoints'[e].success_count = endpoints[e].success_count
               /\ endpoints'[e].failure_count = endpoints[e].failure_count
               /\ \A f \in DOMAIN endpoints : f # e => endpoints'[f] = endpoints[f]
      ]_vars

(* acquire has returned false on a full, quarantined endpoint with recorded
   failures. *)
C26_Witness ==
    \E e \in DOMAIN endpoints :
        /\ AcquireReturned(e)
        /\ ~calls.acquired[1].ok
        /\ endpoints[e].in_flight = endpoints[e].max_concurrent
        /\ ~endpoints[e].healthy
        /\ endpoints[e].failure_count > 0

(* C28: select is stateless: whether it returns an endpoint or
   AllEndpointsUnhealthy, every field of every endpoint and the list of
   endpoints are as before the call. *)
C28_SelectStateless ==
    [][calls'.selected # << >> => endpoints' = endpoints]_vars

(* select has returned, through the recovery path, an endpoint that holds a
   slot and has recorded failures. *)
C28_Witness ==
    \E e \in DOMAIN endpoints :
        /\ Selected(e)
        /\ ~endpoints[e].healthy
        /\ endpoints[e].failure_count > 0
        /\ \E f \in DOMAIN endpoints : endpoints[f].in_flight > 0

(* The total weight of the candidates before position k. *)
WeightBefore(eps, cands, k) == TotalWeight(eps, SubSeq(cands, 1, k - 1))

(* C27: for a non-empty candidate list of total weight W and a draw pick in
   [0, W), weighted_select returns the candidate whose cumulative-weight
   interval, in configuration order, contains pick; for each candidate
   exactly its weight of the W draws return it; the result is a candidate and
   the fallback to the first candidate is not taken. *)
C27_WeightedSelect ==
    Called("weighted_select") =>
        LET c == calls[1]
            W == TotalWeight(c.eps, c.cands)
        IN  /\ ~c.result.fallback
            /\ \E k \in 1..Len(c.cands) :
                   /\ c.result.ep = c.cands[k]
                   /\ WeightBefore(c.eps, c.cands, k) <= c.pick
                   /\ c.pick < WeightBefore(c.eps, c.cands, k) + c.eps[c.cands[k]].weight
            /\ \A k \in 1..Len(c.cands) :
                   Cardinality({ p \in 0..(W - 1) :
                                     weighted_select(c.eps, c.cands, p).ep = c.cands[k] })
                       = c.eps[c.cands[k]].weight

(* Three candidates of weights 1, 2 and 1; the draw 3 returned the third. *)
C27_Witness ==
    /\ Called("weighted_select")
    /\ Len(calls[1].cands) = 3
    /\ calls[1].eps[calls[1].cands[1]].weight = 1
    /\ calls[1].eps[calls[1].cands[2]].weight = 2
    /\ calls[1].eps[calls[1].cands[3]].weight = 1
    /\ calls[1].pick = 3
    /\ calls[1].result.ep = calls[1].cands[3]

(* An action appended name to the health calls of endpoint e. *)
RecordedOn(e, name) ==
    /\ Len(calls'.history[e]) = Len(calls.history[e]) + 1
    /\ calls'.history[e][Len(calls'.history[e])] = name

(* C29: once an endpoint quarantined by recorded failures, its cooldown
   elapsed, was returned by select and a slot was acquired for that request,
   select does not return the endpoint again before an outcome has been
   recorded on it. *)
C29_SingleTrial ==
    \A e \in DOMAIN endpoints :
        Selected(e) /\ OnlyOutcomes(calls.history[e]) => ~calls.probing[e]

(* C30: on an unhealthy endpoint the next record_success makes it healthy,
   and the next record_failure leaves it unhealthy with last_health_check
   reset to now, so should_retry is false until a cooldown has elapsed. *)
C30_QuarantineExtended ==
    [][\A e \in DOMAIN endpoints :
           ~endpoints[e].healthy =>
               /\ RecordedOn(e, "record_success") =>
                      /\ endpoints'[e].healthy
                      /\ is_healthy(endpoints'[e]) /\ should_retry(endpoints'[e])
               /\ RecordedOn(e, "record_failure") =>
                      /\ ~endpoints'[e].healthy
                      /\ endpoints'[e].last_health_check = "Recent"
                      /\ ~should_retry(endpoints'[e])
      ]_vars

(* C31: in every state a concurrent reader (is_healthy, should_retry, select)
   can observe, an unhealthy endpoint has last_health_check set: healthy and
   last_health_check change together. *)
C31_UnhealthyHasTimestamp ==
    ~endpoints[1].healthy => endpoints[1].last_health_check # None

(* The tasks that terminate in this step. *)
Finishing == { r \in Requests : tasks[r].pc # "done" /\ tasks'[r].pc = "done" }

HealthCountersUnchanged ==
    \A e \in DOMAIN endpoints :
        /\ endpoints'[e].failure_count = endpoints[e].failure_count
        /\ endpoints'[e].consecutive_failures = endpoints[e].consecutive_failures
        /\ endpoints'[e].success_count = endpoints[e].success_count

(* C32: a send_with_retry that has returned made exactly one call of
   record_success or record_failure, at its end and matching its result; one
   still running has made none, so a failed attempt followed by a retry
   leaves failure_count and consecutive_failures alone, and a request failing
   after its attempts raises consecutive_failures by exactly 1. *)
C32_OneOutcomeRecorded ==
    /\ [](\A r \in Requests :
              /\ ~Done(r) => ghost[r].records = << >>
              /\ Done(r) /\ ghost[r].sent =>
                     /\ Len(ghost[r].records) = 1
                     /\ tasks[r].result = "Success" <=>
                            ghost[r].records = <<"record_success">>
                     /\ tasks[r].result = "Failure" <=>
                            ghost[r].records = <<"record_failure">>)
    /\ [][/\ Finishing = {} => HealthCountersUnchanged
          /\ \A r \in Finishing :
                 ghost'[r].sent /\ tasks'[r].result = "Failure" =>
                     /\ endpoints'[tasks'[r].ep].consecutive_failures
                            = endpoints[tasks'[r].ep].consecutive_failures + 1
                     /\ endpoints'[tasks'[r].ep].failure_count
                            = endpoints[tasks'[r].ep].failure_count + 1]_vars

(* A request failed after MaxAttempts attempts with a backoff in between and
   one record_failure. *)
C32_Witness ==
    \E r \in Requests :
        /\ Done(r)
        /\ tasks[r].result = "Failure"
        /\ tasks[r].attempts = MaxAttempts
        /\ ghost[r].backoffs = MaxAttempts - 1
        /\ ghost[r].records = <<"record_failure">>

(* C33: within one send_with_retry the attempts are serial: attempt n + 1 is
   issued only when attempt n has failed with a retryable error and the
   backoff sleep after it has completed; there is exactly one backoff between
   two consecutive attempts and none after the last attempt, after a
   non-retryable status or after a success. *)
C33_SerialAttempts ==
    /\ [](\A r \in Requests :
              ghost[r].sent =>
                  /\ ghost[r].issued = tasks[r].attempts
                  /\ tasks[r].pc = "http" => ghost[r].backoffs = ghost[r].issued - 1
                  /\ tasks[r].pc = "backoff" =>
                         /\ ghost[r].backoffs = ghost[r].issued
                         /\ ghost[r].issued < config.max_attempts
                         /\ tasks[r].last_error # None
                         /\ ~NonRetryable(tasks[r].last_status)
                  /\ Done(r) =>
                         ghost[r].backoffs =
                             IF ghost[r].issued = 0 THEN 0 ELSE ghost[r].issued - 1)
    /\ [][\A r \in Requests :
              /\ ghost'[r].issued # ghost[r].issued =>
                     /\ ghost'[r].issued = ghost[r].issued + 1
                     /\ tasks'[r].pc = "http"
                     /\ ghost[r].issued >= 1 => tasks[r].pc = "backoff"
              /\ ghost'[r].backoffs # ghost[r].backoffs =>
                     /\ ghost'[r].backoffs = ghost[r].backoffs + 1
                     /\ tasks[r].pc = "http"
                     /\ tasks'[r].pc = "backoff"]_vars

(* The second attempt of a request is in flight after one backoff. *)
C33_Witness ==
    \E r \in Requests :
        /\ tasks[r].pc = "http"
        /\ ghost[r].issued = 2
        /\ ghost[r].backoffs = 1

Positions(trace, S) == { i \in 1..Len(trace) : trace[i] \in S }

(* C34: after selecting an endpoint a task calls acquire at most three times,
   with the 10 ms and then the 100 ms sleep between the calls, makes no
   further call once one returned true, and then enters send_with_retry on
   that endpoint, also when all three calls returned false. *)
C34_AcquireRetries ==
    Called("acquire_retries") =>
        LET trace    == calls[1].result
            acquires == Positions(trace, {"acquire: true", "acquire: false"})
            sleeps   == Positions(trace, {"sleep 10 ms", "sleep 100 ms"})
        IN  /\ Cardinality(acquires) \in 1..3
            /\ Cardinality(sleeps) = Cardinality(acquires) - 1
            /\ trace[1] \in {"acquire: true", "acquire: false"}
            /\ \A i \in sleeps :
                   /\ trace[i - 1] = "acquire: false"
                   /\ trace[i + 1] \in {"acquire: true", "acquire: false"}
                   /\ trace[i] = IF i = 2 THEN "sleep 10 ms" ELSE "sleep 100 ms"
            /\ \A i \in acquires :
                   /\ trace[i] = "acquire: true" => trace[i + 1] = "send_with_retry"
                   /\ trace[i] = "acquire: false" /\ Cardinality(acquires) < 3 =>
                          trace[i + 1] \in {"sleep 10 ms", "sleep 100 ms"}
            /\ trace[Len(trace)] = "send_with_retry"
            /\ Cardinality(Positions(trace, {"send_with_retry"})) = 1

(* The endpoint was full at each of the three calls and the request was sent
   all the same. *)
C34_Witness ==
    /\ Called("acquire_retries")
    /\ calls[1].result = << "acquire: false", "sleep 10 ms", "acquire: false",
                            "sleep 100 ms", "acquire: false", "send_with_retry" >>

(* C35: under any interleaving of concurrent calls, when a record_recent or
   requests_per_second call that read the clock at now has returned, the
   deque holds no timestamp older than now - 1 s. *)
C35_RecentWindow ==
    calls.returned # << >> =>
        \A i \in 1..Len(calls.recent) : calls.recent[i] >= calls.returned[1] - OneSecond

(* C36: no task holds a lock (sink mutex or endpoint guard) while it is at a
   suspension point, and no task holds a sink mutex and an endpoint guard at
   the same time. *)
C36_NoLockAcrossSuspension ==
    /\ \A r \in Requests :
          /\ tasks[r].pc \in SuspensionPoints => tasks[r].held = {}
          /\ ~({"endpoint guard"} \subseteq tasks[r].held
               /\ tasks[r].held \cap {"output_writer", "error_writer"} # {})
    /\ calls.pc \in SuspensionPoints => calls.held = {}

(* C37: every acquire that returned true is paired with exactly one release
   also when the request is dropped at an await of send_with_retry: after a
   cancelled run the in_flight of every endpoint is back to 0. *)
C37_CancelledRunReleases ==
    (\E r \in Requests : tasks[r].pc = "cancelled") =>
        /\ \A e \in DOMAIN endpoints : endpoints[e].in_flight = 0
        /\ \A r \in Requests :
              ghost[r].acquired => ghost[r].releases = 1

(* C38: with retry.max_attempts = 0 send_with_retry issues no attempt and
   still ends as Failure with attempts = 0, error "Unknown error" and no
   status, after one record_failure and one release; with max_attempts >= 1
   every Failure has attempts >= 1. *)
FailureLines(r) == {line \in BagToSet(failure_sink) : line.task = r}

C38_ZeroAttempts ==
    \A r \in Requests :
        tasks[r].result = "Failure" =>
            /\ Cardinality(FailureLines(r)) = 1
            /\ \A line \in FailureLines(r) :
                  IF config.max_attempts = 0
                      THEN /\ ghost[r].issued = 0
                           /\ line.attempts = 0
                           /\ line.error = "Unknown error"
                           /\ line.status_code = NoStatus
                           /\ ghost[r].records = <<"record_failure">>
                           /\ ghost[r].releases = 1
                      ELSE /\ line.attempts >= 1
                           /\ ghost[r].issued = line.attempts

C38_Witness ==
    /\ config.max_attempts = 0
    /\ \E r \in Requests :
          /\ tasks[r].result = "Failure"
          /\ \E line \in FailureLines(r) : line.attempts = 0 /\ line.error = "Unknown error"
          /\ endpoints[tasks[r].ep].in_flight = 0

(* C39 as stated: as long as every select call so far found a healthy
   endpoint with spare capacity, a quarantined endpoint stays unhealthy. *)
EverySelectFoundAvailable ==
    \A r \in Requests : ~ghost[r].probe /\ tasks[r].result # "Err"

C39_StaysUnhealthy ==
    [][EverySelectFoundAvailable' =>
           \A e \in DOMAIN endpoints :
               ~is_healthy(endpoints[e]) => ~is_healthy(endpoints'[e])]_vars

(* C39: while a healthy endpoint has spare capacity select never returns a
   quarantined endpoint; a quarantined endpoint becomes healthy again only
   through the success of a request in flight on it, which is a probe or a
   request admitted before the quarantine. *)
C39_RecoveryBySuccessOnly ==
    /\ [][\A r \in Requests :
              (tasks[r].pc = "rate" /\ tasks'[r].ep # 0
                   /\ ~is_healthy(endpoints[tasks'[r].ep]))
              => (Available(endpoints) = << >> /\ ghost'[r].probe)]_vars
    /\ [][\A e \in DOMAIN endpoints :
              (~is_healthy(endpoints[e]) /\ is_healthy(endpoints'[e]))
              => \E r \in Requests :
                     /\ tasks[r].pc = "http" /\ tasks[r].ep = e
                     /\ tasks'[r].result = "Success"]_vars

C39_Witness ==
    /\ EverySelectFoundAvailable
    /\ \E e \in DOMAIN endpoints :
          /\ is_healthy(endpoints[e])
          /\ endpoints[e].last_health_check # None

(* C40: at completion of process_file the ProcessingResult has
   total_processed = the number of parsed requests and success_count +
   failure_count = total_processed, a request whose select failed counting as
   a failure; and the three counts agree with the snapshot of the
   StatsTracker. *)
C40_ResultAgreesWithTracker ==
    Completed =>
        LET result == processing_result[1]
        IN  /\ result.total_processed = Cardinality(Requests)
            /\ result.success_count + result.failure_count = result.total_processed
            /\ result.failure_count >=
                   Cardinality({r \in Requests : tasks[r].result = "Err"})
            /\ result.success_count = snapshot(stats).success_count
            /\ result.failure_count = snapshot(stats).failure_count
            /\ result.total_processed = snapshot(stats).total_processed
====
